---- MODULE Spec2Model ----
(***************************************************************************)
(* PlayZork, VersionTwo: the turn pipeline of GameSession and the          *)
(* LangGraph decision graph, the stores it writes (turns, summaries, map   *)
(* transitions, memories, inventory) and the timeout-and-retry wrapper     *)
(* invoke_with_retry.                                                      *)
(*                                                                         *)
(* Spec      : one database, a bounded number of GameSession runs on it.   *)
(* SpecRetry : one invocation of invoke_with_retry, attempt by attempt.    *)
(***************************************************************************)
EXTENDS Integers, Sequences, FiniteSets, TLC

\* ------------------------------------------------------------------------
\* Bounds of the model
\* ------------------------------------------------------------------------
\* highest turn number a session may reach
MaxTurns == 2
\* number of GameSession constructions on the same database
MaxOpens == 2

\* ------------------------------------------------------------------------
\* Program constants
\* ------------------------------------------------------------------------
LLM_MAX_RETRIES == 3
DefaultImportance == 500
MinImportance == 1
MaxImportance == 1000
TopIssuesLimit == 5
DedupLimit == 50

None == "None"
BLOCKED == "BLOCKED"

\* commands the arbiter may choose ("look" is the first command of play())
Commands == {"north"}
Locations == {"West of House", "North of House"}
\* where a new game puts the player
StartLocation == "West of House"
\* commands the game takes as a move: the player is in some location after
\* them, the same as before if the way is blocked
MovementCommands == {"north"}
\* what the INVENTORY text of the bootstrap is parsed to
ParsedInventories == {{}}
Items == {"lamp"}
\* texts are sequences of characters; Blank is a whitespace character
Blank == " "
IssueContents == {<<"a">>}
\* rememberImportance of the Observer; 0 stands for a missing value
RememberImportances == {0}
\* what the proposal step of a specialist agent may answer
ProposedActions == {"take lamp"}
ProposedConfidences == {80}

CARDINAL_DIRECTIONS ==
  <<"NORTH", "SOUTH", "EAST", "WEST", "NORTHEAST", "NORTHWEST",
    "SOUTHEAST", "SOUTHWEST", "UP", "DOWN">>


VARIABLES
  \* ---- GameSession ----
  pc,                \* position of the orchestrator thread in play()
  turn_number,       \* GameSession.turn_number
  input_text,        \* command handed to the next __play_turn
  zork_response,     \* ZorkApiResponse of this turn, or None
  opens,             \* GameSession constructions so far
  game_location,     \* where the game service has the player of this session
  blocked,           \* the orchestrator waits in a call that never returns
  \* ---- HistoryState / turns and summaries tables ----
  turn_counter,      \* HistoryState._turn_counter
  turns,             \* turns table: turn_number -> row
  summaries,         \* summaries table: the turn numbers that have a row
  \* ---- MapperState / map_transitions table ----
  previous_location,
  map_transitions,   \* set of rows [from_location, direction, to_location]
  \* ---- MemoryState / memories table ----
  memories,          \* sequence of rows, the id is the index
  \* ---- InventoryState ----
  items,
  \* ---- DecisionState of the running graph ----
  agents,            \* agent id -> the proposal fields of the agent object
  threads,           \* all_agents, in the order the threads are started
  started,           \* number of threads started
  worker,            \* agent id -> position of its research_agent_sync thread
  decision,          \* AdventurerResponse.command, or None
  observer_response, \* ObserverResponse, or None
  \* ---- observation of the run (not program state) ----
  stage_log,         \* stages that ran in the current turn, in order
  failed_at,         \* stage whose exception ended the session, or None
  exhausted,         \* wrapped call sites whose retries ran out this turn
  game_sent,         \* number of commands sent to the game in this session
  sent_at_failure,   \* game_sent when the game call of a turn failed, or -1
  turn_start,        \* the four stores as they were when the turn began
  persisted_at_open, \* the turns table as the constructor found it
  \* ---- invoke_with_retry (SpecRetry) ----
  r_pc, r_max, r_attempt, r_inflight, r_outcomes, r_sleeps, r_result,
  \* ---- calls on MemoryState (SpecMemory) ----
  m_call,            \* the last call: its arguments and what it returned
  m_life,            \* per row: the importance stored, decay calls since
  m_decays,          \* decay_all_importances calls so far
  \* ---- calls on MapperState and PathFinder (SpecMap) ----
  p_call,            \* the last call and what it returned
  \* ---- calls on LoopDetectionAgent (SpecLoop, SpecRepeat) ----
  l_call,            \* the last research_and_propose call and what it left
  \* ---- calls on InteractionAgent and ExplorerAgent ----
  a_call             \* the last research_and_propose call and what it left

pipeline_vars ==
  <<pc, turn_number, input_text, zork_response, opens, blocked, turn_counter,
    turns, summaries, previous_location, map_transitions, memories, items,
    agents, threads, started, worker, decision, observer_response, stage_log,
    failed_at, exhausted, game_sent, sent_at_failure, turn_start,
    persisted_at_open, game_location>>

retry_vars ==
  <<r_pc, r_max, r_attempt, r_inflight, r_outcomes, r_sleeps, r_result>>

memory_vars == <<m_call, m_life, m_decays>>

map_vars == <<p_call>>

loop_vars == <<l_call>>

agent_vars == <<a_call>>

vars ==
  <<pipeline_vars, retry_vars, memory_vars, map_vars, loop_vars, agent_vars>>

\* ------------------------------------------------------------------------
\* Helpers
\* ------------------------------------------------------------------------
Max(S) == CHOOSE x \in S : \A y \in S : y <= x

RECURSIVE Pow2(_)
Pow2(k) == IF k = 0 THEN 1 ELSE 2 * Pow2(k - 1)

SeqToSet(s) == {s[i] : i \in 1..Len(s)}

\* the four stores
Stores ==
  [history |-> <<turns, summaries>>,
   map |-> map_transitions,
   issues |-> memories,
   inventory |-> items]

\* ------------------------------------------------------------------------
\* External collaborators
\* ------------------------------------------------------------------------
\* ZorkApiClient.get_async: the response object, or None on any HTTP or
\* transport error
NoResponse == [reply_to |-> None, LocationName |-> None]

ApiResults(cmd, here) ==
  {NoResponse}
    \cup {[reply_to |-> cmd, LocationName |-> l] :
            l \in IF cmd \in MovementCommands THEN Locations ELSE {here}}

\* a service that passes a missing response on
ServiceRaisesNever(response) == FALSE

\* ZorkService.play_turn raises when the client returned nothing
ServiceRaises(response) == response = NoResponse

\* invoke_with_retry as seen by its caller: it returns a result or raises
\* after the last attempt (SpecRetry models the attempts)
WrappedOutcomes == {"ok", "raise"}

\* chain.invoke / llm.invoke called without the wrapper: returns or raises;
\* that it may also never return is the action ServiceNeverAnswers
DirectOutcomes == {"ok", "raise"}

\* ------------------------------------------------------------------------
\* Database tables
\* ------------------------------------------------------------------------
\* DatabaseManager.get_latest_turn_number; 0 stands for "no row"
GetLatestTurnNumber(t) == IF DOMAIN t = {} THEN 0 ELSE Max(DOMAIN t)

\* an add_turn that writes nothing
DbAddTurnDropped(t, k, row) == t

\* DatabaseManager.add_turn: INSERT OR REPLACE on (session_id, turn_number)
DbAddTurn(t, k, row) ==
  [x \in DOMAIN t \cup {k} |-> IF x = k THEN row ELSE t[x]]

\* an add_map_transition on a table without the UNIQUE constraint
DbAddMapTransitionUnconstrained(m, row) == m \cup {row}

\* DatabaseManager.add_map_transition: INSERT, ignored when the UNIQUE
\* (session_id, from_location, direction) constraint rejects it
DbAddMapTransition(m, row) ==
  IF \E e \in m : e.from_location = row.from_location
                  /\ e.direction = row.direction
  THEN m
  ELSE m \cup {row}

\* DatabaseManager.get_recent_turns: ORDER BY turn_number DESC LIMIT n, the
\* rows with the n highest turn numbers
GetRecentTurns(t, n) ==
  {k \in DOMAIN t : Cardinality({j \in DOMAIN t : j > k}) < n}

\* DatabaseManager.get_transitions_from_location
GetExitsFrom(m, location) == {e \in m : e.from_location = location}

\* _extract_direction's list of directions, in its order
DirectionList ==
  <<"NORTHEAST", "NORTHWEST", "SOUTHEAST", "SOUTHWEST",
    "NORTH", "SOUTH", "EAST", "WEST", "UP", "DOWN",
    "NE", "NW", "SE", "SW", "N", "S", "E", "W", "U", "D">>

\* command.upper().strip() on the commands of the model
CommandUpper(command) ==
  CASE command = "north" -> "NORTH"
    [] command = "south" -> "SOUTH"
    [] command = "n" -> "N"
    [] command = "look" -> "LOOK"
    [] command = "walk west" -> "WALK WEST"
    [] command = "move w" -> "MOVE W"
    [] OTHER -> command

\* command_upper.startswith("GO "), ("MOVE ") or ("WALK ")
StartsWithMoveVerb(command_upper) ==
  command_upper \in {"WALK WEST", "MOVE W"}

\* "direction in command_upper" for the directions of the list
DirectionsWithin(command_upper) ==
  CASE command_upper = "WALK WEST" -> {"WEST", "S", "E", "W"}
    [] command_upper = "MOVE W" -> {"E", "W"}
    [] OTHER -> {}

\* MapperState._extract_direction: the first direction of the list that
\* the command equals, or that a GO, MOVE or WALK command contains
ExtractDirection(command) ==
  LET command_upper == CommandUpper(command)
      hits == {k \in 1..Len(DirectionList) :
                 \/ command_upper = DirectionList[k]
                 \/ /\ StartsWithMoveVerb(command_upper)
                    /\ DirectionList[k] \in DirectionsWithin(command_upper)}
  IN IF hits = {} THEN None
     ELSE DirectionList[CHOOSE k \in hits : \A h \in hits : k <= h]

\* ------------------------------------------------------------------------
\* GameSession.__init__
\* ------------------------------------------------------------------------
\* Resume turn numbering from where this session left off
ResumeTurnNumber(t) ==
  IF GetLatestTurnNumber(t) # 0 THEN GetLatestTurnNumber(t) ELSE 0

\* HistoryState.__init__: the counter of the history store
InitialTurnCounter(t) == 0

NoAgents == [a \in {} |-> None]
NoObserverResponse == [remember |-> <<>>, rememberImportance |-> 0]

\* the state the constructor leaves, on the database tables given
Construct(t, s, m, mem, inv, n) ==
  /\ pc = "start"
  /\ turn_number = ResumeTurnNumber(t)
  /\ input_text = None
  /\ zork_response = NoResponse
  /\ opens = n
  /\ blocked = FALSE
  /\ turn_counter = InitialTurnCounter(t)
  /\ turns = t
  /\ summaries = s
  /\ previous_location = None
  /\ map_transitions = m
  /\ memories = mem
  /\ items = inv
  /\ agents = NoAgents
  /\ threads = <<>>
  /\ started = 0
  /\ worker = NoAgents
  /\ decision = None
  /\ observer_response = NoObserverResponse
  /\ stage_log = <<>>
  /\ failed_at = None
  /\ exhausted = {}
  /\ game_sent = 0
  /\ sent_at_failure = -1
  /\ turn_start = [history |-> <<t, s>>, map |-> m, issues |-> mem,
                   inventory |-> inv]
  /\ persisted_at_open = t
  /\ game_location = StartLocation

EmptyTable == [k \in {} |-> None]

RetryIdle ==
  /\ r_pc = "idle"
  /\ r_max = 0
  /\ r_attempt = 0
  /\ r_inflight = {}
  /\ r_outcomes = <<>>
  /\ r_sleeps = <<>>
  /\ r_result = <<None, 0>>

NoCall ==
  [op |-> "none", content |-> <<>>, judged |-> FALSE, existing |-> {},
   returned |-> "None"]

MemoryIdle ==
  /\ m_call = NoCall
  /\ m_life = <<>>
  /\ m_decays = 0

\* find_path's result: None, or the list of directions
NoPath == [found |-> FALSE, path |-> <<>>]

NoMapCall ==
  [op |-> "none", from |-> None, to |-> None, is_new |-> FALSE,
   result |-> NoPath, text |-> <<>>, unexplored |-> <<>>, best |-> None]

MapIdle == p_call = NoMapCall

\* LoopDetectionAgent.__init__
NewLoopDetectionAgent ==
  [loop_detected |-> FALSE, loop_type |-> "", proposed_action |-> "nothing",
   reason |-> <<>>, confidence |-> 0]

\* _check_deterministic_loops returning None
NoLoop == [loop_type |-> "", proposed_action |-> None, reason |-> <<>>]

NoLoopCall ==
  [op |-> "none", outcome |-> None, retrieved |-> FALSE,
   current_location |-> None, available_exits |-> <<>>, parsed |-> <<>>,
   deterministic |-> NoLoop, analysis |-> FALSE,
   response |-> NewLoopDetectionAgent, agent |-> NewLoopDetectionAgent,
   before |-> NewLoopDetectionAgent, last_before |-> "",
   last_detection_location |-> ""]

LoopIdle == l_call = NoLoopCall

\* InteractionAgent.__init__ and ExplorerAgent before research_and_propose:
\* no call yet
NoAgentCall ==
  [op |-> "none", calls |-> 0, game_response |-> <<>>, inventory |-> <<>>,
   matched |-> FALSE, analysis |-> FALSE, outcome |-> None,
   unexplored |-> <<>>, mentioned |-> <<>>, best |-> None,
   answered |-> 0, proposed_action |-> <<"nothing">>, confidence |-> 0]

AgentIdle == a_call = NoAgentCall

\* first construction, on an empty database
Init ==
  /\ Construct(EmptyTable, {}, {}, <<>>, {}, 1)
  /\ RetryIdle
  /\ MemoryIdle
  /\ MapIdle
  /\ LoopIdle
  /\ AgentIdle

\* ------------------------------------------------------------------------
\* GameSession.play
\* ------------------------------------------------------------------------
\* an exception reaches play(): it is printed and the loop is left
SessionEnds(stage) ==
  /\ pc' = "ended"
  /\ failed_at' = stage

\* await self.zork_service.play_turn("verbose")
PlayVerbose ==
  /\ pc = "start" /\ ~blocked
  /\ game_sent' = game_sent + 1
  /\ \E r \in ApiResults("verbose", game_location) :
       IF ServiceRaises(r)
       THEN SessionEnds("play")
       ELSE pc' = "bootstrap" /\ failed_at' = failed_at
  /\ UNCHANGED <<turn_number, input_text, zork_response, opens, blocked,
                 turn_counter, turns, summaries, previous_location,
                 map_transitions, memories, items, agents, threads, started,
                 worker, decision, observer_response, stage_log, exhausted,
                 sent_at_failure, turn_start, persisted_at_open, game_location,
                 retry_vars, memory_vars, map_vars, loop_vars, agent_vars>>

\* _bootstrap_inventory: the INVENTORY command
BootstrapInventory ==
  /\ pc = "bootstrap" /\ ~blocked
  /\ game_sent' = game_sent + 1
  /\ \E r \in ApiResults("INVENTORY", game_location) :
       IF ServiceRaises(r)
       THEN SessionEnds("play")
       ELSE pc' = "parse_inventory" /\ failed_at' = failed_at
  /\ UNCHANGED <<turn_number, input_text, zork_response, opens, blocked,
                 turn_counter, turns, summaries, previous_location,
                 map_transitions, memories, items, agents, threads, started,
                 worker, decision, observer_response, stage_log, exhausted,
                 sent_at_failure, turn_start, persisted_at_open, game_location,
                 retry_vars, memory_vars, map_vars, loop_vars, agent_vars>>

\* InventoryState.sync_with_game: add what the game lists, remove the rest
SyncWithGame(inv, game_inventory) ==
  (inv \cup (game_inventory \ inv)) \ (inv \ game_inventory)

\* _parse_inventory_response (llm.invoke without wrapper; any exception
\* gives the empty list) followed by sync_with_game, then "look" is played
ParseInventory ==
  /\ pc = "parse_inventory" /\ ~blocked
  /\ \E out \in DirectOutcomes, parsed \in ParsedInventories :
       items' = SyncWithGame(items, IF out = "ok" THEN parsed ELSE {})
  /\ input_text' = "look"
  /\ pc' = "execute"
  /\ UNCHANGED <<turn_number, zork_response, opens, blocked, turn_counter,
                 turns, summaries, previous_location, map_transitions,
                 memories, agents, threads, started, worker, decision,
                 observer_response, stage_log, failed_at, exhausted, game_sent,
                 sent_at_failure, turn_start, persisted_at_open, game_location,
                 retry_vars, memory_vars, map_vars, loop_vars, agent_vars>>

\* ------------------------------------------------------------------------
\* GameSession.__play_turn, up to the decision graph
\* ------------------------------------------------------------------------
\* Step 1: the turn counter is advanced and the command is sent to the game;
\* the session is followed while its turn number is below limit
PlayTurn(limit) ==
  /\ pc = "execute" /\ ~blocked
  /\ turn_number < limit
  /\ turn_number' = turn_number + 1
  /\ stage_log' = <<"Execute">>
  /\ turn_start' = Stores
  /\ exhausted' = {}
  /\ game_sent' = game_sent + 1
  /\ \E r \in ApiResults(input_text, game_location) :
       IF ServiceRaises(r)
       THEN /\ SessionEnds("Execute")
            /\ sent_at_failure' = game_sent'
            /\ zork_response' = zork_response
            /\ game_location' = game_location
       ELSE /\ pc' = "history"
            /\ failed_at' = failed_at
            /\ sent_at_failure' = sent_at_failure
            /\ zork_response' = r
            /\ game_location' = r.LocationName
  /\ UNCHANGED <<input_text, opens, blocked, turn_counter, turns, summaries,
                 previous_location, map_transitions, memories, items, agents,
                 threads, started, worker, decision, observer_response,
                 persisted_at_open, retry_vars, memory_vars, map_vars,
                 loop_vars, agent_vars>>

Execute == PlayTurn(MaxTurns)

\* Step 2, HistoryToolkit.update_after_turn: HistoryState.add_turn
HistoryAddTurn ==
  /\ pc = "history" /\ ~blocked
  /\ turn_counter' = turn_counter + 1
  /\ turns' = DbAddTurn(turns, turn_counter',
                        [player_command |-> input_text,
                         game_response |-> zork_response.reply_to,
                         location |-> zork_response.LocationName])
  /\ pc' = "summary_recent"
  /\ UNCHANGED <<turn_number, input_text, zork_response, opens, blocked,
                 summaries, previous_location, map_transitions, memories,
                 items, agents, threads, started, worker, decision,
                 observer_response, stage_log, failed_at, exhausted, game_sent,
                 sent_at_failure, turn_start, persisted_at_open, game_location,
                 retry_vars, memory_vars, map_vars, loop_vars, agent_vars>>

\* update_after_turn: HistorySummarizer.generate_summary, chain.invoke
\* without wrapper; an exception is logged and ends update_after_turn
SummaryRecent ==
  /\ pc = "summary_recent" /\ ~blocked
  /\ \E out \in DirectOutcomes :
       pc' = IF out = "ok" THEN "summary_long" ELSE "map"
  /\ UNCHANGED <<turn_number, input_text, zork_response, opens, blocked,
                 turn_counter, turns, summaries, previous_location,
                 map_transitions, memories, items, agents, threads, started,
                 worker, decision, observer_response, stage_log, failed_at,
                 exhausted, game_sent, sent_at_failure, turn_start,
                 persisted_at_open, game_location, retry_vars, memory_vars,
                 map_vars, loop_vars, agent_vars>>

\* update_after_turn: generate_long_running_summary, then
\* save_both_summaries at the history store's own counter
SummaryLong ==
  /\ pc = "summary_long" /\ ~blocked
  /\ \E out \in DirectOutcomes :
       summaries' = IF out = "ok" THEN summaries \cup {turn_counter}
                    ELSE summaries
  /\ pc' = "map"
  /\ UNCHANGED <<turn_number, input_text, zork_response, opens, blocked,
                 turn_counter, turns, previous_location, map_transitions,
                 memories, items, agents, threads, started, worker, decision,
                 observer_response, stage_log, failed_at, exhausted, game_sent,
                 sent_at_failure, turn_start, persisted_at_open, game_location,
                 retry_vars, memory_vars, map_vars, loop_vars, agent_vars>>

\* ------------------------------------------------------------------------
\* create_decision_graph
\* ------------------------------------------------------------------------
\* graph.set_entry_point
GraphEntry == "spawn_agents"

\* the graph with the edges of research and decide exchanged
GraphEdgeSwapped(node) ==
  CASE node = "spawn_agents" -> "decide"
    [] node = "decide" -> "research"
    [] node = "research" -> "close_issues"
    [] node = "close_issues" -> "observe"
    [] node = "observe" -> "persist"
    [] node = "persist" -> "END"

\* graph.add_edge: the node that runs after a node
GraphEdge(node) ==
  CASE node = "spawn_agents" -> "research"
    [] node = "research" -> "decide"
    [] node = "decide" -> "close_issues"
    [] node = "close_issues" -> "observe"
    [] node = "observe" -> "persist"
    [] node = "persist" -> "END"

\* str.upper() on the direction texts of the model
Upper(direction) ==
  CASE direction = "north" -> "NORTH"
    [] direction = "south" -> "SOUTH"
    [] direction = "east" -> "EAST"
    [] direction = "in" -> "IN"
    [] OTHER -> direction

\* a record_movement whose row replaces the one stored for the pair
RecordMovementReplacing(m, from_location, to_location, direction, turn) ==
  {e \in m : ~(e.from_location = from_location
               /\ e.direction = Upper(direction))}
    \cup {[from_location |-> from_location, direction |-> Upper(direction),
            to_location |-> to_location, turn_discovered |-> turn]}

\* MapperState.record_movement: the direction is upper-cased, then
\* add_map_transition
RecordMovement(m, from_location, to_location, direction, turn) ==
  DbAddMapTransition(m,
    [from_location |-> from_location, direction |-> Upper(direction),
     to_location |-> to_location, turn_discovered |-> turn])

\* MapperState.update_from_turn: the transitions after the update
UpdateFromTurn(m, prev, current_location, player_command, turn) ==
  LET direction == ExtractDirection(player_command) IN
  IF prev # None
  THEN IF prev # current_location
       THEN IF direction # None
            THEN RecordMovement(m, prev, current_location, direction, turn)
            ELSE m
       ELSE IF direction # None
            THEN RecordMovement(m, prev, BLOCKED, direction, turn)
            ELSE m
  ELSE m

\* Step 2b, MapperToolkit.update_after_turn
UpdateMap ==
  /\ pc = "map" /\ ~blocked
  /\ map_transitions' =
       UpdateFromTurn(map_transitions, previous_location,
                      zork_response.LocationName, input_text, turn_number)
  /\ previous_location' = zork_response.LocationName
  /\ pc' = GraphEntry
  /\ UNCHANGED <<turn_number, input_text, zork_response, opens, blocked,
                 turn_counter, turns, summaries, memories, items, agents,
                 threads, started, worker, decision, observer_response,
                 stage_log, failed_at, exhausted, game_sent, sent_at_failure,
                 turn_start, persisted_at_open, game_location, retry_vars,
                 memory_vars, map_vars, loop_vars, agent_vars>>


\* ------------------------------------------------------------------------
\* MemoryState / memories table
\* ------------------------------------------------------------------------
\* ORDER BY importance DESC, turn_number DESC (the id settles what is left)
MemoryBefore(mem, i, j) ==
  \/ mem[i].importance > mem[j].importance
  \/ /\ mem[i].importance = mem[j].importance
     /\ \/ mem[i].turn_number > mem[j].turn_number
        \/ mem[i].turn_number = mem[j].turn_number /\ i < j

\* the ids of S as a sequence ordered by MemoryBefore
RECURSIVE OrderedIds(_, _)
OrderedIds(mem, S) ==
  IF S = {} THEN <<>>
  ELSE LET first == CHOOSE i \in S : \A j \in S \ {i} : MemoryBefore(mem, i, j)
       IN <<first>> \o OrderedIds(mem, S \ {first})

Take(s, n) == SubSeq(s, 1, IF Len(s) < n THEN Len(s) ELSE n)

\* DatabaseManager.get_top_memories(include_closed = False): the ids of the
\* open rows, most important first
GetTopMemories(mem, limit) ==
  Take(OrderedIds(mem, {i \in 1..Len(mem) : ~mem[i].closed}), limit)

\* sorted(memories, key = location): a stable sort on the location name
LocationRank(l) ==
  CASE l = "North of House" -> 1
    [] l = "West of House" -> 2
    [] OTHER -> 0

RECURSIVE SortedByLocation(_, _)
SortedByLocation(mem, ids) ==
  IF ids = <<>> THEN <<>>
  ELSE LET least == CHOOSE k \in 1..Len(ids) :
                      \A j \in 1..Len(ids) :
                        \/ LocationRank(mem[ids[k]].location)
                             < LocationRank(mem[ids[j]].location)
                        \/ /\ LocationRank(mem[ids[k]].location)
                                = LocationRank(mem[ids[j]].location)
                           /\ k <= j
       IN <<ids[least]>>
          \o SortedByLocation(mem, SubSeq(ids, 1, least - 1)
                                   \o SubSeq(ids, least + 1, Len(ids)))

\* ------------------------------------------------------------------------
\* spawn_agents_node
\* ------------------------------------------------------------------------
IssueId(i) == <<"IssueAgent", i>>
ExplorerId == <<"ExplorerAgent", 0>>
LoopId == <<"LoopDetectionAgent", 0>>
InteractionId == <<"InteractionAgent", 0>>

\* the proposal fields of a freshly constructed agent
NewAgent(best) ==
  [proposed_action |-> None, confidence |-> -1, best_direction |-> best]

\* the directions of CARDINAL_DIRECTIONS with no known exit from the location
RECURSIVE Filter(_, _)
Filter(s, keep) ==
  IF s = <<>> THEN <<>>
  ELSE (IF Head(s) \in keep THEN <<Head(s)>> ELSE <<>>)
       \o Filter(Tail(s), keep)

UnexploredDirections(m, location) ==
  Filter(CARDINAL_DIRECTIONS,
         SeqToSet(CARDINAL_DIRECTIONS)
           \ {e.direction : e \in GetExitsFrom(m, location)})

\* the game texts of the model name no direction
MentionedDirections(unexplored) == <<>>

FirstIn(order, S, otherwise) ==
  IF \E k \in 1..Len(order) : order[k] \in S
  THEN order[CHOOSE k \in 1..Len(order) :
               order[k] \in S /\ \A j \in 1..(k - 1) : order[j] \notin S]
  ELSE otherwise

\* a _pick_best_direction without the first priority
PickBestDirectionUnmentioned(unexplored, mentioned) ==
  FirstIn(CARDINAL_DIRECTIONS, SeqToSet(unexplored),
          IF unexplored # <<>> THEN unexplored[1] ELSE "NORTH")

\* ExplorerAgent._pick_best_direction
PickBestDirection(unexplored, mentioned) ==
  IF mentioned # <<>> THEN mentioned[1]
  ELSE FirstIn(<<"NORTH", "SOUTH", "EAST", "WEST", "NORTHEAST", "NORTHWEST",
                 "SOUTHEAST", "SOUTHWEST", "UP", "DOWN">>,
               SeqToSet(unexplored),
               IF unexplored # <<>> THEN unexplored[1] ELSE "NORTH")

\* a _calculate_confidence without the bonus
CalculateConfidenceWithoutBonus(unexplored, mentioned, chosen_direction) ==
  LET unexplored_count == Len(unexplored)
  IN IF unexplored_count >= 6 THEN 75
     ELSE IF unexplored_count >= 4 THEN 65
     ELSE IF unexplored_count >= 2 THEN 55
     ELSE 45

\* ExplorerAgent._calculate_confidence
CalculateConfidence(unexplored, mentioned, chosen_direction) ==
  LET unexplored_count == Len(unexplored)
      base == IF unexplored_count >= 6 THEN 75
              ELSE IF unexplored_count >= 4 THEN 65
              ELSE IF unexplored_count >= 2 THEN 55
              ELSE 45
      bonus == IF chosen_direction \in SeqToSet(mentioned) THEN 20 ELSE 0
  IN IF base + bonus < 95 THEN base + bonus ELSE 95

\* all_agents: the issue agents, the explorer if there is one, the disabled
\* loop detector (None) and the interaction agent
AllAgents(issue_ids, has_explorer) ==
  [k \in 1..Len(issue_ids) |-> IssueId(issue_ids[k])]
    \o (IF has_explorer THEN <<ExplorerId>> ELSE <<>>)
    \o <<LoopId, InteractionId>>

\* spawn_agents_node up to the thread loop: the agents are constructed
SpawnAgents ==
  /\ pc = "spawn_agents" /\ ~blocked
  /\ stage_log' = Append(stage_log, "SpawnAgents")
  /\ LET issue_ids ==
           SortedByLocation(memories,
                            GetTopMemories(memories, TopIssuesLimit))
         unexplored ==
           UnexploredDirections(map_transitions, zork_response.LocationName)
         mentioned == MentionedDirections(unexplored)
         all_agents == AllAgents(issue_ids, unexplored # <<>>)
     IN /\ threads' = all_agents
        /\ agents' =
             [a \in SeqToSet(all_agents) \ {LoopId} |->
                IF a = ExplorerId
                THEN NewAgent(PickBestDirection(unexplored, mentioned))
                ELSE NewAgent(None)]
        /\ worker' = [a \in SeqToSet(all_agents) |-> "new"]
  /\ started' = 0
  /\ pc' = "start_threads"
  /\ UNCHANGED <<turn_number, input_text, zork_response, opens, blocked,
                 turn_counter, turns, summaries, previous_location,
                 map_transitions, memories, items, decision, observer_response,
                 failed_at, exhausted, game_sent, sent_at_failure, turn_start,
                 persisted_at_open, game_location, retry_vars, memory_vars,
                 map_vars, loop_vars, agent_vars>>

\* for agent in all_agents: thread.start()
StartThread ==
  /\ pc = "start_threads" /\ ~blocked
  /\ started < Len(threads)
  /\ started' = started + 1
  /\ worker' = [worker EXCEPT ![threads[started + 1]] = "running"]
  /\ pc' = IF started + 1 = Len(threads) THEN "join" ELSE pc
  /\ UNCHANGED <<turn_number, input_text, zork_response, opens, blocked,
                 turn_counter, turns, summaries, previous_location,
                 map_transitions, memories, items, agents, threads, decision,
                 observer_response, stage_log, failed_at, exhausted, game_sent,
                 sent_at_failure, turn_start, persisted_at_open, game_location,
                 retry_vars, memory_vars, map_vars, loop_vars, agent_vars>>

\* a tool that writes the inventory
ExecuteToolCallsWriting(stores) == [stores EXCEPT !.inventory = Items]

\* tool calls of a research step (get_recent_turns, get_full_summary,
\* get_map, get_exits_from_location, get_inventory, get_strategic_analysis)
\* only read the stores: the stores after the calls
ExecuteToolCalls(stores) == stores

\* an except branch that leaves the agent as it is
FailedProposalKept(agent) == agent

\* what the except branch of research_agent_sync leaves in the agent
FailedProposal(agent) ==
  [agent EXCEPT !.proposed_action = "nothing", !.confidence = 0]

\* a thread's run of research_agent_sync on an agent: the research call
\* (invoke_with_retry), its tool calls, and the proposal call
\* (invoke_with_retry).  IssueAgent re-raises either failure; ExplorerAgent
\* catches both and keeps its best direction; InteractionAgent catches the
\* first and re-raises the second.  The game texts of the model hold nothing
\* for InteractionAgent._deterministic_parse.
ResearchAgentSync(a) ==
  /\ a \in DOMAIN worker /\ worker[a] = "running"
  /\ a # LoopId
  /\ \E research \in WrappedOutcomes, proposal \in WrappedOutcomes,
        action \in ProposedActions, confidence \in ProposedConfidences :
       /\ a[1] = "IssueAgent" /\ research = "raise" => proposal = "raise"
       /\ exhausted' = IF research = "raise" \/ proposal = "raise"
                       THEN exhausted \cup {"SpawnAgents"}
                       ELSE exhausted
       /\ LET after == IF research = "ok" THEN ExecuteToolCalls(Stores)
                       ELSE Stores
          IN /\ turns' = after.history[1]
             /\ summaries' = after.history[2]
             /\ map_transitions' = after.map
             /\ memories' = after.issues
             /\ items' = after.inventory
       /\ IF a = ExplorerId
          THEN /\ agents' =
                    [agents EXCEPT ![a] =
                       [@ EXCEPT
                          !.proposed_action =
                            IF proposal = "ok" THEN action
                            ELSE agents[a].best_direction,
                          !.confidence =
                            CalculateConfidence(
                              UnexploredDirections(map_transitions,
                                zork_response.LocationName),
                              MentionedDirections(<<>>),
                              agents[a].best_direction)]]
               /\ worker' = [worker EXCEPT ![a] = "done"]
          ELSE IF proposal = "ok"
          THEN /\ agents' =
                    [agents EXCEPT ![a] =
                       [@ EXCEPT !.proposed_action = action,
                                 !.confidence = confidence]]
               /\ worker' = [worker EXCEPT ![a] = "done"]
          ELSE /\ agents' = [agents EXCEPT ![a] = FailedProposal(@)]
               /\ worker' = [worker EXCEPT ![a] = "failed"]
  /\ UNCHANGED <<pc, turn_number, input_text, zork_response, opens, blocked,
                 turn_counter, previous_location, threads, started, decision,
                 observer_response, stage_log, failed_at, game_sent,
                 sent_at_failure, turn_start, persisted_at_open, game_location,
                 retry_vars, memory_vars, map_vars, loop_vars, agent_vars>>

\* the thread started for the None entry of all_agents: research_agent_sync
\* fails on it inside its own except branch and the thread ends
WorkerCrash ==
  /\ LoopId \in DOMAIN worker /\ worker[LoopId] = "running"
  /\ worker' = [worker EXCEPT ![LoopId] = "crashed"]
  /\ UNCHANGED <<pc, turn_number, input_text, zork_response, opens, blocked,
                 turn_counter, turns, summaries, previous_location,
                 map_transitions, memories, items, agents, threads, started,
                 decision, observer_response, stage_log, failed_at, exhausted,
                 game_sent, sent_at_failure, turn_start, persisted_at_open,
                 game_location, retry_vars, memory_vars, map_vars, loop_vars,
                 agent_vars>>

ThreadEnded(a) == worker[a] \in {"done", "failed", "crashed"}

\* a join loop that goes on as soon as one thread has ended
AllJoinedAnyThread == \E k \in 1..Len(threads) : ThreadEnded(threads[k])

\* for thread in threads: thread.join() returns for every thread
AllJoined == \A k \in 1..Len(threads) : ThreadEnded(threads[k])

JoinThreads ==
  /\ pc = "join" /\ ~blocked
  /\ AllJoined
  /\ pc' = GraphEdge("spawn_agents")
  /\ UNCHANGED <<turn_number, input_text, zork_response, opens, blocked,
                 turn_counter, turns, summaries, previous_location,
                 map_transitions, memories, items, agents, threads, started,
                 worker, decision, observer_response, stage_log, failed_at,
                 exhausted, game_sent, sent_at_failure, turn_start,
                 persisted_at_open, game_location, retry_vars, memory_vars,
                 map_vars, loop_vars, agent_vars>>


\* ------------------------------------------------------------------------
\* research_node, decision_node
\* ------------------------------------------------------------------------
\* research_node: invoke_with_retry on the research agent, then its tool
\* calls; an exhausted call leaves the graph and __play_turn as an exception
Research ==
  /\ pc = "research" /\ ~blocked
  /\ stage_log' = Append(stage_log, "Research")
  /\ \E out \in WrappedOutcomes :
       IF out = "ok"
       THEN /\ pc' = GraphEdge("research")
            /\ failed_at' = failed_at
            /\ exhausted' = exhausted
       ELSE /\ SessionEnds("Research")
            /\ exhausted' = exhausted \cup {"Research"}
  /\ UNCHANGED <<turn_number, input_text, zork_response, opens, blocked,
                 turn_counter, turns, summaries, previous_location,
                 map_transitions, memories, items, agents, threads, started,
                 worker, decision, observer_response, game_sent,
                 sent_at_failure, turn_start, persisted_at_open, game_location,
                 retry_vars, memory_vars, map_vars, loop_vars, agent_vars>>

\* decision_node: invoke_with_retry on the decision chain
Decide ==
  /\ pc = "decide" /\ ~blocked
  /\ stage_log' = Append(stage_log, "Decide")
  /\ \E out \in WrappedOutcomes, command \in Commands :
       IF out = "ok"
       THEN /\ decision' = command
            /\ pc' = GraphEdge("decide")
            /\ failed_at' = failed_at
            /\ exhausted' = exhausted
       ELSE /\ decision' = decision
            /\ SessionEnds("Decide")
            /\ exhausted' = exhausted \cup {"Decide"}
  /\ UNCHANGED <<turn_number, input_text, zork_response, opens, blocked,
                 turn_counter, turns, summaries, previous_location,
                 map_transitions, memories, items, agents, threads, started,
                 worker, observer_response, game_sent, sent_at_failure,
                 turn_start, persisted_at_open, game_location, retry_vars,
                 memory_vars, map_vars, loop_vars, agent_vars>>

\* ------------------------------------------------------------------------
\* close_issues_node (IssueClosedAgent.analyze)
\* ------------------------------------------------------------------------
\* DatabaseManager.close_memory for each id of closed_issue_ids
CloseMemories(mem, ids) ==
  [i \in 1..Len(mem) |->
     IF i \in ids THEN [mem[i] EXCEPT !.closed = TRUE] ELSE mem[i]]

OpenIds(mem) == {i \in 1..Len(mem) : ~mem[i].closed}

CloseIssues ==
  /\ pc = "close_issues" /\ ~blocked
  /\ stage_log' = Append(stage_log, "CloseIssues")
  /\ IF OpenIds(memories) = {}
     THEN \* no tracked issues: returns without a call
          /\ pc' = GraphEdge("close_issues")
          /\ UNCHANGED <<memories, failed_at, exhausted>>
     ELSE \E out \in WrappedOutcomes, closed_issue_ids \in SUBSET OpenIds(memories) :
            IF out = "ok"
            THEN /\ memories' = CloseMemories(memories, closed_issue_ids)
                 /\ pc' = GraphEdge("close_issues")
                 /\ failed_at' = failed_at
                 /\ exhausted' = exhausted
            ELSE /\ memories' = memories
                 /\ SessionEnds("CloseIssues")
                 /\ exhausted' = exhausted \cup {"CloseIssues"}
  /\ UNCHANGED <<turn_number, input_text, zork_response, opens, blocked,
                 turn_counter, turns, summaries, previous_location,
                 map_transitions, items, agents, threads, started, worker,
                 decision, observer_response, game_sent, sent_at_failure,
                 turn_start, persisted_at_open, game_location, retry_vars,
                 memory_vars, map_vars, loop_vars, agent_vars>>

\* ------------------------------------------------------------------------
\* observe_node (ObserverAgent.observe): two wrapped calls
\* ------------------------------------------------------------------------
ObserverResponses ==
  {NoObserverResponse}
    \cup [remember : IssueContents, rememberImportance : RememberImportances]

Observe ==
  /\ pc = "observe" /\ ~blocked
  /\ stage_log' = Append(stage_log, "Observe")
  /\ \E research \in WrappedOutcomes, analysis \in WrappedOutcomes,
        response \in ObserverResponses :
       IF research = "ok" /\ analysis = "ok"
       THEN /\ observer_response' = response
            /\ pc' = GraphEdge("observe")
            /\ failed_at' = failed_at
            /\ exhausted' = exhausted
       ELSE /\ observer_response' = observer_response
            /\ SessionEnds("Observe")
            /\ exhausted' = exhausted \cup {"Observe"}
  /\ UNCHANGED <<turn_number, input_text, zork_response, opens, blocked,
                 turn_counter, turns, summaries, previous_location,
                 map_transitions, memories, items, agents, threads, started,
                 worker, decision, game_sent, sent_at_failure, turn_start,
                 persisted_at_open, game_location, retry_vars, memory_vars,
                 map_vars, loop_vars, agent_vars>>

\* ------------------------------------------------------------------------
\* persist_node
\* ------------------------------------------------------------------------
Clamp(importance) ==
  IF importance < MinImportance THEN MinImportance
  ELSE IF importance > MaxImportance THEN MaxImportance
  ELSE importance

\* str.strip(): the text without its leading and trailing whitespace
RECURSIVE StripLeft(_)
StripLeft(s) ==
  IF s # <<>> /\ Head(s) = Blank THEN StripLeft(Tail(s)) ELSE s

RECURSIVE StripRight(_)
StripRight(s) ==
  IF s # <<>> /\ s[Len(s)] = Blank
  THEN StripRight(SubSeq(s, 1, Len(s) - 1))
  ELSE s

Strip(s) == StripRight(StripLeft(s))

\* int(importance) of MemoryState.add_memory: an argument is <<kind, n>>,
\* an int n, a numeral (a string of digits that reads n), or a text or
\* None, for which int() raises ValueError or TypeError and 500 is taken
ToInt(importance) ==
  IF importance[1] \in {"int", "numeral"} THEN importance[2]
  ELSE DefaultImportance

\* a duplicate check that looks at the open rows only
CheckDuplicateMemoryOpenOnly(mem, content) ==
  \E i \in 1..Len(mem) : ~mem[i].closed /\ mem[i].content = content

\* DatabaseManager.check_duplicate_memory: open and closed rows alike
CheckDuplicateMemory(mem, content) ==
  \E i \in 1..Len(mem) : mem[i].content = content

\* DatabaseManager.add_memory
DbAddMemory(mem, content, importance, turn, location) ==
  Append(mem, [content |-> content, importance |-> importance,
               turn_number |-> turn, location |-> location,
               closed |-> FALSE])

\* existing_contents of MemoryState.add_memory: the contents of
\* self.get_top_memories(limit=50), i.e. of the open rows
ExistingContents(mem) ==
  LET top == GetTopMemories(mem, DedupLimit)
  IN {mem[top[k]].content : k \in 1..Len(top)}

\* MemoryState.add_memory gets as far as MemoryDeduplicator.is_duplicate
CallsDeduplicator(mem, content) ==
  /\ Strip(content) # <<>>
  /\ ~CheckDuplicateMemory(mem, Strip(content))
  /\ ExistingContents(mem) # {}

\* MemoryState.add_memory; is_dup is the deduplicator's answer.  The store
\* after the call and what the call returns (a Memory, or None)
MemoryStateAddMemory(mem, content, importance, is_dup, turn, location) ==
  IF Strip(content) = <<>>
  THEN [memories |-> mem, returned |-> "None"]
  ELSE IF CheckDuplicateMemory(mem, Strip(content))
  THEN [memories |-> mem, returned |-> "None"]
  ELSE IF ExistingContents(mem) # {} /\ is_dup
  THEN [memories |-> mem, returned |-> "None"]
  ELSE [memories |-> DbAddMemory(mem, Strip(content),
                                 Clamp(ToInt(importance)), turn, location),
        returned |-> "Memory"]

\* persist_node: add_memory is called when remember is not empty and not
\* blank
ReachesDeduplicator(mem, response) ==
  /\ Strip(response.remember) # <<>>
  /\ CallsDeduplicator(mem, response.remember)

\* persist_node's add_memory(content = remember,
\* importance = rememberImportance or 500, ...)
AddMemory(mem, response, is_dup, turn, location) ==
  IF Strip(response.remember) = <<>> THEN mem
  ELSE MemoryStateAddMemory(mem, response.remember,
                            <<"int", IF response.rememberImportance = 0
                                     THEN DefaultImportance
                                     ELSE response.rememberImportance>>,
                            is_dup, turn, location).memories

\* a decay that also lowers the closed rows
DecayAllImportancesClosedToo(mem) ==
  [i \in 1..Len(mem) |->
     IF mem[i].importance > 0
     THEN [mem[i] EXCEPT !.importance = (@ * 9) \div 10]
     ELSE mem[i]]

\* DatabaseManager.decay_all_importances(decay_factor = 0.9)
DecayAllImportances(mem) ==
  [i \in 1..Len(mem) |->
     IF ~mem[i].closed /\ mem[i].importance > 0
     THEN [mem[i] EXCEPT !.importance = (@ * 9) \div 10]
     ELSE mem[i]]

\* a persist_node that decays first and inserts afterwards
PersistIssuesDecayFirst(mem, response, is_dup, turn, location) ==
  AddMemory(DecayAllImportances(mem), response, is_dup, turn, location)

\* persist_node on the Issue Store: add_memory for the Observer's issue, then
\* decay_all_importances(decay_factor=0.9)
PersistIssues(mem, response, is_dup, turn, location) ==
  DecayAllImportances(AddMemory(mem, response, is_dup, turn, location))

\* persist_node's call analyzer.analyze_turn(player_command=decision.command,
\* game_response=zork_response.Response): the command is the one just
\* decided, the response is the graph's game_response, i.e. the game's reply
\* to the command this turn executed (recorded here by the command it
\* answers)
AnalyzeTurnArguments ==
  [player_command |-> decision, response_to |-> zork_response.reply_to]

\* InventoryState.add_item / remove_item for the analyzer's change
ApplyInventoryChange(inv, items_added, items_removed) ==
  (inv \cup items_added) \ items_removed

\* persist_node: add_memory (the deduplicator is called without wrapper and
\* its exception leaves the graph), decay, then InventoryAnalyzer.analyze_turn
\* (without wrapper, an exception gives the empty change)
Persist ==
  /\ pc = "persist" /\ ~blocked
  /\ stage_log' = Append(stage_log, "Persist")
  /\ LET dedup == ReachesDeduplicator(memories, observer_response) IN
     \E dedup_out \in DirectOutcomes, is_dup \in BOOLEAN,
        analyzer_out \in DirectOutcomes,
        items_added \in SUBSET Items, items_removed \in SUBSET Items :
       /\ ~dedup => dedup_out = "ok" /\ ~is_dup
       /\ analyzer_out = "raise" => items_added = {} /\ items_removed = {}
       /\ IF dedup /\ dedup_out = "raise"
          THEN /\ SessionEnds("Persist")
               /\ UNCHANGED <<memories, items>>
          ELSE /\ memories' =
                    PersistIssues(memories, observer_response, is_dup,
                                  turn_number, zork_response.LocationName)
               /\ items' = ApplyInventoryChange(items, items_added,
                                                items_removed)
               /\ pc' = GraphEdge("persist")
               /\ failed_at' = failed_at
  /\ UNCHANGED <<turn_number, input_text, zork_response, opens, blocked,
                 turn_counter, turns, summaries, previous_location,
                 map_transitions, agents, threads, started, worker, decision,
                 observer_response, exhausted, game_sent, sent_at_failure,
                 turn_start, persisted_at_open, game_location, retry_vars,
                 memory_vars, map_vars, loop_vars, agent_vars>>

\* ------------------------------------------------------------------------
\* GameSession.play: the loop, and the session's end and re-opening
\* ------------------------------------------------------------------------
\* handle_user_input returns; __play_turn returns player_response.command,
\* which the loop passes to the next __play_turn
EndTurn ==
  /\ pc = "END" /\ ~blocked
  /\ input_text' = decision
  /\ agents' = NoAgents
  /\ worker' = NoAgents
  /\ threads' = <<>>
  /\ started' = 0
  /\ decision' = None
  /\ observer_response' = NoObserverResponse
  /\ exhausted' = {}
  /\ pc' = "execute"
  /\ UNCHANGED <<turn_number, zork_response, opens, blocked, turn_counter,
                 turns, summaries, previous_location, map_transitions,
                 memories, items, stage_log, failed_at, game_sent,
                 sent_at_failure, turn_start, persisted_at_open, game_location,
                 retry_vars, memory_vars, map_vars, loop_vars, agent_vars>>

\* a call made without the wrapper is never answered: the call has no
\* timeout and the turn stays where it is
DirectCallAt ==
  CASE pc = "parse_inventory" -> "parse_inventory"
    [] pc = "summary_recent" -> "generate_summary"
    [] pc = "summary_long" -> "generate_long_running_summary"
    [] pc = "persist" ->
         IF ReachesDeduplicator(memories, observer_response)
         THEN "is_duplicate" ELSE "analyze_turn"
    [] OTHER -> None

ServiceNeverAnswers ==
  /\ ~blocked
  /\ DirectCallAt # None
  /\ blocked' = TRUE
  /\ UNCHANGED <<pc, turn_number, input_text, zork_response, opens,
                 turn_counter, turns, summaries, previous_location,
                 map_transitions, memories, items, agents, threads, started,
                 worker, decision, observer_response, stage_log, failed_at,
                 exhausted, game_sent, sent_at_failure, turn_start,
                 persisted_at_open, game_location, retry_vars, memory_vars,
                 map_vars, loop_vars, agent_vars>>

\* the process is stopped between two turns
Interrupt ==
  /\ pc = "execute" /\ ~blocked
  /\ pc' = "ended"
  /\ UNCHANGED <<turn_number, input_text, zork_response, opens, blocked,
                 turn_counter, turns, summaries, previous_location,
                 map_transitions, memories, items, agents, threads, started,
                 worker, decision, observer_response, stage_log, failed_at,
                 exhausted, game_sent, sent_at_failure, turn_start,
                 persisted_at_open, game_location, retry_vars, memory_vars,
                 map_vars, loop_vars, agent_vars>>

\* main.py is run again with the same session id: GameSession.__init__ over
\* the database the earlier run left
Reopen ==
  /\ pc = "ended"
  /\ opens < MaxOpens
  /\ opens' = opens + 1
  /\ pc' = "start"
  /\ turn_number' = ResumeTurnNumber(turns)
  /\ turn_counter' = InitialTurnCounter(turns)
  /\ previous_location' = None
  /\ input_text' = None
  /\ zork_response' = NoResponse
  /\ agents' = NoAgents
  /\ worker' = NoAgents
  /\ threads' = <<>>
  /\ started' = 0
  /\ decision' = None
  /\ observer_response' = NoObserverResponse
  /\ stage_log' = <<>>
  /\ failed_at' = None
  /\ exhausted' = {}
  /\ game_sent' = 0
  /\ sent_at_failure' = -1
  /\ turn_start' = Stores
  /\ persisted_at_open' = turns
  /\ UNCHANGED <<blocked, turns, summaries, map_transitions, memories, items,
                 game_location, retry_vars, memory_vars, map_vars, loop_vars,
                 agent_vars>>

Next ==
  \/ PlayVerbose
  \/ BootstrapInventory
  \/ ParseInventory
  \/ Execute
  \/ HistoryAddTurn
  \/ SummaryRecent
  \/ SummaryLong
  \/ UpdateMap
  \/ SpawnAgents
  \/ StartThread
  \/ \E a \in DOMAIN worker : ResearchAgentSync(a)
  \/ WorkerCrash
  \/ JoinThreads
  \/ Research
  \/ Decide
  \/ CloseIssues
  \/ Observe
  \/ Persist
  \/ EndTurn
  \/ ServiceNeverAnswers
  \/ Interrupt
  \/ Reopen

Spec == Init /\ [][Next]_vars


\* ------------------------------------------------------------------------
\* The runs in which the game and the LLM service answer every call: no call
\* raises, times out or hangs. Without the failures' branching the session
\* is followed one turn further, far enough for a re-opened session to play
\* a turn over a database that holds more records than the re-opened
\* session has written.
\* ------------------------------------------------------------------------
ExecuteResumed == PlayTurn(MaxTurns + 1)

\* the step in which no call has failed
Answered == failed_at' = None /\ exhausted' = {}

NextAnswered ==
  \/ PlayVerbose /\ Answered
  \/ BootstrapInventory /\ Answered
  \/ ParseInventory /\ Answered
  \/ ExecuteResumed /\ Answered
  \/ HistoryAddTurn /\ Answered
  \/ SummaryRecent /\ Answered
  \/ SummaryLong /\ Answered
  \/ UpdateMap /\ Answered
  \/ SpawnAgents /\ Answered
  \/ StartThread /\ Answered
  \/ \E a \in DOMAIN worker : ResearchAgentSync(a) /\ Answered
  \/ WorkerCrash /\ Answered
  \/ JoinThreads /\ Answered
  \/ Research /\ Answered
  \/ Decide /\ Answered
  \/ CloseIssues /\ Answered
  \/ Observe /\ Answered
  \/ Persist /\ Answered
  \/ EndTurn /\ Answered
  \/ Interrupt /\ Answered
  \/ Reopen /\ Answered

SpecAnswered == Init /\ [][NextAnswered]_vars

\* ------------------------------------------------------------------------
\* MemoryState over the memories table: add_memory, decay_all_importances
\* and remove_memory called in any order on a store that starts empty.
\* One decay call ends a turn, as in persist_node; a row added before the
\* k-th decay call carries turn number k.
\* ------------------------------------------------------------------------
MaxDecays == 3

\* the content arguments: empty, blank, two texts, one of them also with
\* whitespace around it
Contents ==
  {<<>>, <<Blank>>, <<"a">>, <<Blank, "a">>, <<"a", Blank>>, <<"b">>}

\* the importance arguments: ints below, in and above the range, a numeral
\* and a text
ImportanceArguments ==
  {<<"int", -5>>, <<"int", 1>>, <<"int", 3>>, <<"int", 1200>>,
   <<"numeral", 7>>, <<"text", 0>>}

\* MemoryState.add_memory(content, importance, ...); the deduplicator's
\* chain.invoke is called without wrapper and its exception leaves
\* add_memory.  The importance argument is only varied for the calls that
\* get as far as using it.
AddMemoryCall ==
  \E content \in Contents :
    LET judged == CallsDeduplicator(memories, content)
        rejected == Strip(content) = <<>>
                    \/ CheckDuplicateMemory(memories, Strip(content))
    IN \E out \in IF judged THEN DirectOutcomes ELSE {"ok"} :
       \E is_dup \in IF judged /\ out = "ok" THEN BOOLEAN ELSE {FALSE} :
       \E importance \in IF rejected \/ is_dup \/ out = "raise"
                         THEN {<<"int", 1>>} ELSE ImportanceArguments :
         LET r == MemoryStateAddMemory(memories, content, importance,
                                       is_dup, m_decays + 1, StartLocation)
             raised == judged /\ out = "raise"
         IN /\ memories' = IF raised THEN memories ELSE r.memories
            /\ m_call' = [op |-> "add", content |-> content,
                          judged |-> judged,
                          existing |-> IF judged
                                       THEN ExistingContents(memories)
                                       ELSE {},
                          returned |-> IF raised THEN "raise"
                                       ELSE r.returned]
            /\ m_life' =
                 IF Len(memories') > Len(memories)
                 THEN Append(m_life,
                        [initial |-> memories'[Len(memories')].importance,
                         decays |-> 0])
                 ELSE m_life
            /\ UNCHANGED <<pc, turn_number, input_text, zork_response, opens, blocked,
                           turn_counter, turns, summaries, previous_location,
                           map_transitions, items, agents, threads, started, worker,
                           decision, observer_response, stage_log, failed_at, exhausted,
                           game_sent, sent_at_failure, turn_start, persisted_at_open,
                           game_location, retry_vars, m_decays, map_vars, loop_vars,
                           agent_vars>>

\* MemoryState.decay_all_importances(decay_factor = 0.9)
DecayCall ==
  /\ m_decays < MaxDecays
  /\ m_decays' = m_decays + 1
  /\ memories' = DecayAllImportances(memories)
  /\ m_call' = [NoCall EXCEPT !.op = "decay", !.returned = "count"]
  /\ m_life' = [i \in 1..Len(m_life) |->
                  IF memories[i].closed THEN m_life[i]
                  ELSE [m_life[i] EXCEPT !.decays = @ + 1]]
  /\ UNCHANGED <<pc, turn_number, input_text, zork_response, opens, blocked,
                 turn_counter, turns, summaries, previous_location,
                 map_transitions, items, agents, threads, started, worker,
                 decision, observer_response, stage_log, failed_at, exhausted,
                 game_sent, sent_at_failure, turn_start, persisted_at_open,
                 game_location, retry_vars, map_vars, loop_vars, agent_vars>>

\* MemoryState.remove_memory(memory_id): DatabaseManager.close_memory
CloseCall ==
  /\ \E id \in 1..Len(memories) :
       /\ memories' = CloseMemories(memories, {id})
       /\ m_call' = [NoCall EXCEPT !.op = "close",
                       !.returned = IF memories[id].closed THEN "False"
                                    ELSE "True"]
  /\ UNCHANGED <<pc, turn_number, input_text, zork_response, opens, blocked,
                 turn_counter, turns, summaries, previous_location,
                 map_transitions, items, agents, threads, started, worker,
                 decision, observer_response, stage_log, failed_at, exhausted,
                 game_sent, sent_at_failure, turn_start, persisted_at_open,
                 game_location, retry_vars, m_life, m_decays, map_vars,
                 loop_vars, agent_vars>>

NextMemory ==
  \/ AddMemoryCall
  \/ DecayCall
  \/ CloseCall

SpecMemory == Init /\ [][NextMemory]_vars

\* ------------------------------------------------------------------------
\* PathFinder (tools/mapping/pathfinder.py)
\* ------------------------------------------------------------------------
\* the sequences that hold each element of S once
RECURSIVE Orders(_)
Orders(S) ==
  IF S = {} THEN {<<>>}
  ELSE UNION {{<<x>> \o rest : rest \in Orders(S \ {x})} : x \in S}

\* MapperState.get_all_transitions: the rows ORDER BY turn_discovered ASC;
\* rows of one turn come in an order the database is free to choose
AllTransitionsOrders(m) ==
  {s \in Orders(m) :
     \A i, j \in 1..Len(s) :
       i < j => s[i].turn_discovered <= s[j].turn_discovered}

\* a graph builder that skips no row
SkipsNoTransition(trans) ==
  FALSE

\* if trans.to_location == "BLOCKED": continue
SkipsTransition(trans) ==
  trans.to_location = BLOCKED

\* graph[location] of _build_graph: the (direction, destination) pairs of
\* the rows that leave location, in the order of the rows, BLOCKED skipped
RECURSIVE EdgesFrom(_, _)
EdgesFrom(rows, location) ==
  IF rows = <<>> THEN <<>>
  ELSE LET trans == Head(rows)
           rest == EdgesFrom(Tail(rows), location)
       IN IF ~SkipsTransition(trans) /\ trans.from_location = location
          THEN <<<<trans.direction, trans.to_location>>>> \o rest
          ELSE rest

\* a _build_graph that keeps only the last pair of each location
BuildGraphOverwriting(rows) ==
  [location \in {rows[i].from_location :
                   i \in {j \in 1..Len(rows) : ~SkipsTransition(rows[j])}}
     |-> <<EdgesFrom(rows, location)[Len(EdgesFrom(rows, location))]>>]

\* PathFinder._build_graph
BuildGraph(rows) ==
  [location \in {rows[i].from_location :
                   i \in {j \in 1..Len(rows) : ~SkipsTransition(rows[j])}}
     |-> EdgesFrom(rows, location)]

\* for direction, neighbor in graph[current]: a neighbor not yet visited is
\* marked, gets its parent and is queued
RECURSIVE Explore(_, _, _, _, _)
Explore(edges, current, queue, visited, parent) ==
  IF edges = <<>>
  THEN [queue |-> queue, visited |-> visited, parent |-> parent]
  ELSE LET direction == Head(edges)[1]
           neighbor == Head(edges)[2]
       IN IF neighbor \notin visited
          THEN Explore(Tail(edges), current, Append(queue, neighbor),
                       visited \cup {neighbor},
                       parent @@ (neighbor :> <<direction, current>>))
          ELSE Explore(Tail(edges), current, queue, visited, parent)

\* path = []; while parent[node][0] is not None: path.append(direction);
\* node = prev_node  -- the directions from the destination back to the start
RECURSIVE CollectPath(_, _)
CollectPath(parent, node) ==
  IF parent[node][1] = None THEN <<>>
  ELSE <<parent[node][1]>> \o CollectPath(parent, parent[node][2])

\* path.reverse()
ReversePath(path) == [i \in 1..Len(path) |-> path[Len(path) + 1 - i]]

\* a reconstruction that leaves the path as it was collected, destination
\* first
ReconstructPathBackwards(parent, node) ==
  CollectPath(parent, node)

\* the path collected backwards through the parent pointers, then reversed
ReconstructPath(parent, node) ==
  ReversePath(CollectPath(parent, node))

\* while queue: current = queue.popleft() ...
RECURSIVE Bfs(_, _, _, _, _)
Bfs(graph, queue, visited, parent, to_location) ==
  IF queue = <<>> THEN NoPath
  ELSE LET current == Head(queue) IN
       IF current = to_location
       THEN [found |-> TRUE, path |-> ReconstructPath(parent, to_location)]
       ELSE LET after ==
                  IF current \in DOMAIN graph
                  THEN Explore(graph[current], current, Tail(queue), visited,
                               parent)
                  ELSE [queue |-> Tail(queue), visited |-> visited,
                        parent |-> parent]
            IN Bfs(graph, after.queue, after.visited, after.parent,
                   to_location)

\* a find_path without the check for from_location = to_location
FindPathWithoutSameLocationCase(rows, from_location, to_location) ==
  LET graph == BuildGraph(rows) IN
  IF from_location \notin DOMAIN graph THEN NoPath
  ELSE Bfs(graph, <<from_location>>, {from_location},
           from_location :> <<None, None>>, to_location)

\* PathFinder.find_path over the rows get_all_transitions returned
FindPath(rows, from_location, to_location) ==
  IF from_location = to_location THEN [found |-> TRUE, path |-> <<>>]
  ELSE LET graph == BuildGraph(rows) IN
       IF from_location \notin DOMAIN graph THEN NoPath
       ELSE Bfs(graph, <<from_location>>, {from_location},
                from_location :> <<None, None>>, to_location)

\* a rendered text is the sequence of its pieces; ", " is the separator of
\* str.join
Separator == ", "

CannotDetermine == <<"cannot determine how to get there">>

\* ", ".join(path)
RECURSIVE Join(_)
Join(path) ==
  IF path = <<>> THEN <<>>
  ELSE IF Len(path) = 1 THEN <<path[1]>>
  ELSE <<Head(path), Separator>> \o Join(Tail(path))

\* PathFinder.get_path_string over the rows get_all_transitions returned
GetPathString(rows, from_location, to_location) ==
  LET path == FindPath(rows, from_location, to_location) IN
  IF ~path.found THEN CannotDetermine
  ELSE IF Len(path.path) = 0 THEN <<>>
  ELSE Join(path.path)

\* an abbreviation lookup that leaves every direction as it is
AbbrevMapGetUnabbreviated(direction) ==
  direction

\* abbrev_map.get(d, d)
AbbrevMapGet(direction) ==
  CASE direction = "NORTH" -> "N"
    [] direction = "SOUTH" -> "S"
    [] direction = "EAST" -> "E"
    [] direction = "WEST" -> "W"
    [] direction = "NORTHEAST" -> "NE"
    [] direction = "NORTHWEST" -> "NW"
    [] direction = "SOUTHEAST" -> "SE"
    [] direction = "SOUTHWEST" -> "SW"
    [] direction = "UP" -> "U"
    [] direction = "DOWN" -> "D"
    [] OTHER -> direction

\* PathFinder.get_abbreviated_path
GetAbbreviatedPath(rows, from_location, to_location) ==
  LET path == FindPath(rows, from_location, to_location) IN
  IF ~path.found THEN CannotDetermine
  ELSE IF Len(path.path) = 0 THEN <<>>
  ELSE Join([i \in 1..Len(path.path) |-> AbbrevMapGet(path.path[i])])

\* ------------------------------------------------------------------------
\* MapperState and PathFinder over the map_transitions table:
\* record_movement, update_from_turn and find_path called in any order on a
\* map that starts empty, while the map has fewer than MaxMoves rows.  The
\* calls carry the same turn number, so that find_path meets the rows in
\* every order.
\* ------------------------------------------------------------------------
MaxMoves == 3

MapLocations == {"A", "B", "C"}

\* the direction arguments of record_movement
MoveDirections == {"north", "NORTH", "in"}

\* the commands update_from_turn is called with
MapCommands == {"north", "look"}

RecordMovementWithin(limit) ==
  /\ Cardinality(map_transitions) < limit
  /\ \E from_location \in MapLocations, to_location \in MapLocations,
        direction \in MoveDirections :
       /\ map_transitions' = RecordMovement(map_transitions, from_location,
                                            to_location, direction, 1)
       /\ p_call' = [NoMapCall EXCEPT
                       !.op = "record_movement",
                       !.is_new = map_transitions' # map_transitions]
  /\ UNCHANGED <<pc, turn_number, input_text, zork_response, opens, blocked,
                 turn_counter, turns, summaries, previous_location, memories,
                 items, agents, threads, started, worker, decision,
                 observer_response, stage_log, failed_at, exhausted, game_sent,
                 sent_at_failure, turn_start, persisted_at_open, game_location,
                 retry_vars, memory_vars, loop_vars, agent_vars>>

UpdateFromTurnWithin(limit, commands) ==
  /\ Cardinality(map_transitions) < limit
  /\ \E current_location \in MapLocations, player_command \in commands :
       /\ map_transitions' =
            UpdateFromTurn(map_transitions, previous_location,
                           current_location, player_command, 1)
       /\ previous_location' = current_location
       /\ p_call' = [NoMapCall EXCEPT
                       !.op = "update_from_turn",
                       !.is_new = map_transitions' # map_transitions]
  /\ UNCHANGED <<pc, turn_number, input_text, zork_response, opens, blocked,
                 turn_counter, turns, summaries, memories, items, agents,
                 threads, started, worker, decision, observer_response,
                 stage_log, failed_at, exhausted, game_sent, sent_at_failure,
                 turn_start, persisted_at_open, game_location, retry_vars,
                 memory_vars, loop_vars, agent_vars>>

RecordMovementCall == RecordMovementWithin(MaxMoves)

UpdateFromTurnCall == UpdateFromTurnWithin(MaxMoves, MapCommands)

\* the arguments of a path query: any location of the model as start, any
\* location or BLOCKED as destination, the start itself included
PathDestinations == MapLocations \cup {BLOCKED}

\* find_path(from, to), asked when the call before it has added a row to
\* the map
FindPathCall ==
  /\ p_call.is_new
  /\ \E from_location \in MapLocations,
        rows \in AllTransitionsOrders(map_transitions),
        to_location \in PathDestinations :
       p_call' = [NoMapCall EXCEPT
                    !.op = "find_path",
                    !.from = from_location,
                    !.to = to_location,
                    !.result = FindPath(rows, from_location, to_location)]
  /\ UNCHANGED <<pipeline_vars, retry_vars, memory_vars, loop_vars, agent_vars>>

\* get_path_string(from, to); result is what its find_path call returned
GetPathStringCall ==
  /\ p_call.is_new
  /\ \E from_location \in MapLocations,
        rows \in AllTransitionsOrders(map_transitions),
        to_location \in PathDestinations :
       p_call' = [NoMapCall EXCEPT
                    !.op = "get_path_string",
                    !.from = from_location,
                    !.to = to_location,
                    !.result = FindPath(rows, from_location, to_location),
                    !.text = GetPathString(rows, from_location, to_location)]
  /\ UNCHANGED <<pipeline_vars, retry_vars, memory_vars, loop_vars, agent_vars>>

\* get_abbreviated_path(from, to); result is what its find_path call
\* returned
GetAbbreviatedPathCall ==
  /\ p_call.is_new
  /\ \E from_location \in MapLocations,
        rows \in AllTransitionsOrders(map_transitions),
        to_location \in PathDestinations :
       p_call' = [NoMapCall EXCEPT
                    !.op = "get_abbreviated_path",
                    !.from = from_location,
                    !.to = to_location,
                    !.result = FindPath(rows, from_location, to_location),
                    !.text = GetAbbreviatedPath(rows, from_location,
                                                to_location)]
  /\ UNCHANGED <<pipeline_vars, retry_vars, memory_vars, loop_vars, agent_vars>>

NextMap ==
  \/ RecordMovementCall
  \/ UpdateFromTurnCall
  \/ FindPathCall

SpecMap == Init /\ [][NextMap]_vars

\* ------------------------------------------------------------------------
\* invoke_with_retry (llm_utils.py, and its copy in config.py)
\* ------------------------------------------------------------------------
\* the max_retries argument; LLM_MAX_RETRIES when it is not given
MaxRetriesArguments == 0..LLM_MAX_RETRIES

\* a backoff that starts at one second
WaitTimeFromOne(attempt) == Pow2(attempt - 1)

\* wait_time = 2 ** attempt
WaitTime(attempt) == Pow2(attempt)

\* future.cancel() on a call that is already running returns False and
\* executor.shutdown(wait = False) does not stop the worker thread: the
\* calls still running after the timeout of attempt k
CancelFuture(inflight, k) == inflight

\* the call is entered
InitRetry ==
  /\ Construct(EmptyTable, {}, {}, <<>>, {}, 1)
  /\ MemoryIdle
  /\ MapIdle
  /\ LoopIdle
  /\ AgentIdle
  /\ r_pc = "loop"
  /\ r_max \in MaxRetriesArguments
  /\ r_attempt = 0
  /\ r_inflight = {}
  /\ r_outcomes = <<>>
  /\ r_sleeps = <<>>
  /\ r_result = <<None, 0>>

\* for attempt in range(1, max_retries + 1): executor.submit(chain.invoke)
RetrySubmit ==
  /\ r_pc = "loop"
  /\ r_attempt < r_max
  /\ r_attempt' = r_attempt + 1
  /\ r_inflight' = r_inflight \cup {r_attempt + 1}
  /\ r_pc' = "running"
  /\ UNCHANGED <<pipeline_vars, r_max, r_outcomes, r_sleeps, r_result,
                 memory_vars, map_vars, loop_vars, agent_vars>>

\* the range is used up without a return or a raise: the last line
RetryLoopEnds ==
  /\ r_pc = "loop"
  /\ r_attempt >= r_max
  /\ r_result' = <<"Exception", 0>>
  /\ r_pc' = "raised"
  /\ UNCHANGED <<pipeline_vars, r_max, r_attempt, r_inflight, r_outcomes,
                 r_sleeps, memory_vars, map_vars, loop_vars, agent_vars>>

\* future.result returns within the timeout
RetrySuccess ==
  /\ r_pc = "running"
  /\ r_outcomes' = Append(r_outcomes, "ok")
  /\ r_inflight' = r_inflight \ {r_attempt}
  /\ r_result' = <<"result", r_attempt>>
  /\ r_pc' = "returned"
  /\ UNCHANGED <<pipeline_vars, r_max, r_attempt, r_sleeps, memory_vars,
                 map_vars, loop_vars, agent_vars>>

\* what follows a failed attempt: the backoff sleep, or the raise
AfterFailure(raised) ==
  IF r_attempt < r_max
  THEN /\ r_sleeps' = Append(r_sleeps, WaitTime(r_attempt))
       /\ r_pc' = "sleeping"
       /\ r_result' = r_result
  ELSE /\ r_sleeps' = r_sleeps
       /\ r_pc' = "raised"
       /\ r_result' = raised

\* except FuturesTimeoutError
RetryTimeout ==
  /\ r_pc = "running"
  /\ r_outcomes' = Append(r_outcomes, "timeout")
  /\ r_inflight' = CancelFuture(r_inflight, r_attempt)
  /\ AfterFailure(<<"TimeoutError", 0>>)
  /\ UNCHANGED <<pipeline_vars, r_max, r_attempt, memory_vars, map_vars,
                 loop_vars, agent_vars>>

\* except Exception: chain.invoke raised within the timeout
RetryError ==
  /\ r_pc = "running"
  /\ r_outcomes' = Append(r_outcomes, "error")
  /\ r_inflight' = r_inflight \ {r_attempt}
  /\ AfterFailure(<<"error", r_attempt>>)
  /\ UNCHANGED <<pipeline_vars, r_max, r_attempt, memory_vars, map_vars,
                 loop_vars, agent_vars>>

\* time.sleep(wait_time) returns: the next round of the loop
RetryWakes ==
  /\ r_pc = "sleeping"
  /\ r_pc' = "loop"
  /\ UNCHANGED <<pipeline_vars, r_max, r_attempt, r_inflight, r_outcomes,
                 r_sleeps, r_result, memory_vars, map_vars, loop_vars,
                 agent_vars>>

\* the call of an attempt that timed out ends in its abandoned thread
AbandonedCallEnds ==
  /\ \E k \in r_inflight :
       /\ k <= Len(r_outcomes)
       /\ r_inflight' = r_inflight \ {k}
  /\ UNCHANGED <<pipeline_vars, r_pc, r_max, r_attempt, r_outcomes, r_sleeps,
                 r_result, memory_vars, map_vars, loop_vars, agent_vars>>

NextRetry ==
  \/ RetrySubmit
  \/ RetryLoopEnds
  \/ RetrySuccess
  \/ RetryTimeout
  \/ RetryError
  \/ RetryWakes
  \/ AbandonedCallEnds

SpecRetry == InitRetry /\ [][NextRetry]_vars


\* ------------------------------------------------------------------------
\* Properties
\* ------------------------------------------------------------------------
IsPrefix(s, t) == Len(s) <= Len(t) /\ \A i \in 1..Len(s) : s[i] = t[i]

\* the order of the stages as the specification text gives it
ClaimedOrder ==
  <<"SpawnAgents", "Research", "Decide", "Execute", "CloseIssues", "Observe",
    "Persist">>

\* the order in which __play_turn and the graph run them
StageOrder ==
  <<"Execute", "SpawnAgents", "Research", "Decide", "CloseIssues", "Observe",
    "Persist">>

\* the pipeline is past the join of spawn_agents_node
PastJoin == pc \in {"research", "decide", "close_issues", "observe",
                    "persist", "END"}

\* C1 as stated: the stages of a turn run in the order SpawnAgents, Research,
\* Decide, Execute, CloseIssues, Observe, Persist.
C1_ClaimedStageOrder == IsPrefix(stage_log, ClaimedOrder)

\* C1 as the code has it: the stages of a turn run in the order Execute,
\* SpawnAgents, Research, Decide, CloseIssues, Observe, Persist, each at most
\* once and none skipped in a turn that reaches its end; no command is sent
\* to the game from Decide to Persist, and the command chosen by Decide is
\* the one the next turn's Execute sends.
C1_StageOrder ==
  /\ [](/\ IsPrefix(stage_log, StageOrder)
        /\ pc = "END" => stage_log = StageOrder)
  /\ [][/\ PastJoin => game_sent' = game_sent
        /\ pc = "END" /\ pc' = "execute" => input_text' = decision
        /\ pc = "execute" /\ pc' = "history" =>
             zork_response'.reply_to = input_text]_vars

\* a second turn has sent the command the first turn decided on
C1_Witness ==
  /\ turn_number = 2 /\ pc = "END"
  /\ zork_response.reply_to = "north"
  /\ stage_log = StageOrder

\* C2: Research and Decide never start while a worker of the turn is still
\* running, every spawned agent has its proposal when they run, and the
\* proposal fields do not change from the join on.
C2_Barrier ==
  /\ [](PastJoin =>
          /\ started = Len(threads)
          /\ \A a \in DOMAIN worker : worker[a] \notin {"new", "running"}
          /\ \A a \in DOMAIN agents : agents[a].proposed_action # None)
  /\ [][PastJoin /\ pc' # "execute" => agents' = agents]_vars

\* Decide is about to run on the proposals of an issue agent, the explorer
\* and the interaction agent
C2_Witness ==
  /\ pc = "decide"
  /\ IssueId(1) \in DOMAIN agents
  /\ ExplorerId \in DOMAIN agents
  /\ worker[InteractionId] = "failed"

\* C3 as stated: at no time are two attempts of one invocation in flight.
C3_OneAttemptInFlight == Cardinality(r_inflight) <= 1

\* C4 as stated: an exhausted call anywhere in the turn, specialist agents
\* included, ends the turn instead of letting it go on to later stages.
C4_ExhaustionEndsTurn == exhausted # {} => ~PastJoin

\* C4 as the code has it: an exhausted call of Research, Decide, CloseIssues
\* or Observe ends the session at that stage; an exhausted call inside a
\* specialist agent does not: an issue or interaction agent whose call
\* failed proposes "nothing" with confidence 0, the explorer proposes its
\* best direction, and the turn goes on.
C4_ExhaustionByStage ==
  /\ exhausted \ {"SpawnAgents"} # {} =>
       /\ pc = "ended"
       /\ failed_at \in exhausted
       /\ stage_log[Len(stage_log)] = failed_at
  /\ \A a \in DOMAIN agents :
       /\ worker[a] = "failed" =>
            /\ "SpawnAgents" \in exhausted
            /\ agents[a].proposed_action = "nothing"
            /\ agents[a].confidence = 0
       /\ a = ExplorerId /\ worker[a] = "done" =>
            agents[a].proposed_action
              \in ProposedActions \cup {agents[a].best_direction}
  /\ failed_at # "SpawnAgents"

\* a turn reaches its end although a call inside an agent ran out of retries
C4_Witness ==
  /\ pc = "END"
  /\ "SpawnAgents" \in exhausted
  /\ \E a \in DOMAIN worker : worker[a] = "failed"

\* C5 as stated: a turn that fails at Execute or at Decide leaves the four
\* stores as they were before the turn.
C5_FailedTurnLeavesStores ==
  failed_at \in {"Execute", "Decide"} => Stores = turn_start

\* C5 as the code has it: a turn that fails at Execute leaves the four
\* stores as they were; a turn that fails at Decide leaves the issue and
\* inventory stores as they were, while the history store holds the turn's
\* record and the map store holds what the turn's movement added.
C5_FailedTurnStores ==
  /\ failed_at = "Execute" => Stores = turn_start
  /\ failed_at = "Decide" =>
       /\ memories = turn_start.issues
       /\ items = turn_start.inventory
       /\ turn_counter \in DOMAIN turns
       /\ turns[turn_counter] =
            [player_command |-> input_text,
             game_response |-> zork_response.reply_to,
             location |-> zork_response.LocationName]
       /\ turn_start.map \subseteq map_transitions

\* a turn failed at Decide after its record and a map transition were written
C5_Witness ==
  /\ failed_at = "Decide"
  /\ turns # turn_start.history[1]
  /\ map_transitions # turn_start.map


\* the turn's record of this session's k-th turn, as add_turn was given it
ThisTurnRecord ==
  [player_command |-> input_text,
   game_response |-> zork_response.reply_to,
   location |-> zork_response.LocationName]

\* C6 as stated: after a re-opening the turn's record is written under the
\* session's turn number, which is one more than the highest persisted
\* number, and the records found at the re-opening are still there as they
\* were.
C6_ResumedNumbering ==
  pc = "summary_recent" =>
    /\ turn_number =
         GetLatestTurnNumber(persisted_at_open) + turn_counter
    /\ turn_number \in DOMAIN turns
    /\ turns[turn_number] = ThisTurnRecord
    /\ \A k \in DOMAIN persisted_at_open : turns[k] = persisted_at_open[k]

\* the agent threads of the turn: from the first start to the last join
InWindow == pc \in {"start_threads", "join"} /\ started >= 1

\* C7: from the start of the first agent thread to the join of the last no
\* step changes the history, map, issue or inventory store, and every step
\* that changes a store is taken while no agent thread is running.
C7_NoWritesInWindow ==
  [][/\ InWindow => Stores' = Stores
     /\ Stores' # Stores =>
          /\ ~InWindow
          /\ \A a \in DOMAIN worker : worker[a] # "running"]_vars

\* one agent thread has ended and another is running, in a turn whose
\* record is in the history store
C7_Witness ==
  /\ pc = "join"
  /\ DOMAIN turns # {}
  /\ \E a \in DOMAIN worker : worker[a] = "running"
  /\ \E a \in DOMAIN worker : worker[a] = "done"

FailedAttempts == {k \in 1..Len(r_outcomes) : r_outcomes[k] # "ok"}

\* C8: invoke_with_retry makes at most max_retries attempts; a successful
\* attempt is the last one and its result is returned; after the k-th failed
\* attempt with k < max_retries it waits 2^k seconds, after the last one it
\* does not wait; after max_retries failed attempts it raises a timeout
\* error if the last attempt timed out and the last attempt's error if not.
C8_BoundedRetry ==
  /\ r_attempt <= r_max
  /\ Len(r_outcomes) <= r_attempt
  /\ \A k \in 1..Len(r_outcomes) :
       r_outcomes[k] = "ok" =>
         /\ k = Len(r_outcomes) /\ k = r_attempt
         /\ r_pc = "returned"
         /\ r_result = <<"result", k>>
  /\ r_pc = "returned" => Len(r_outcomes) \notin FailedAttempts \cup {0}
  /\ Len(r_sleeps) = Cardinality({k \in FailedAttempts : k < r_max})
  /\ \A k \in 1..Len(r_sleeps) : r_sleeps[k] = Pow2(k)
  /\ r_pc = "raised" /\ r_max >= 1 =>
       /\ FailedAttempts = 1..r_max
       /\ r_result = IF r_outcomes[r_max] = "timeout"
                     THEN <<"TimeoutError", 0>>
                     ELSE <<"error", r_max>>

\* the default number of attempts all failed, the last by a timeout
C8_Witness ==
  /\ r_pc = "raised"
  /\ r_max = LLM_MAX_RETRIES
  /\ r_outcomes = <<"error", "timeout", "timeout">>
  /\ r_sleeps = <<2, 4>>
  /\ r_result = <<"TimeoutError", 0>>

\* C9 as stated: no turn is left waiting for ever for a call to the
\* service, since every call has the wrapper's timeout.
C9_NoTurnStuckInCall == ~blocked

\* C10: when the game call of a turn fails, the session ends at once: no
\* record of the turn is added, no stage of the pipeline has run, and no
\* further command is sent; the turn's record and the pipeline only ever
\* follow a response to the turn's command.
C10_GameFailureEndsSession ==
  /\ failed_at = "Execute" =>
       /\ pc = "ended"
       /\ Stores = turn_start
       /\ stage_log = <<"Execute">>
       /\ game_sent = sent_at_failure
  /\ pc \in {"history", "summary_recent", "summary_long", "map",
             "spawn_agents", "start_threads", "join"} \/ PastJoin =>
       /\ zork_response # NoResponse
       /\ zork_response.reply_to = input_text

\* the game call of a second turn failed
C10_Witness ==
  /\ failed_at = "Execute"
  /\ turn_number = 2
  /\ DOMAIN turns = {1}
  /\ pc = "ended"

\* ------------------------------------------------------------------------
\* C11 as stated: in every turn the (command, response) pair handed to the
\* inventory change-detector in Persist is a command together with the
\* response of the game to that same command.
C11_AnalyzerPairMatches ==
  [][pc = "persist" /\ pc' = "END" =>
       AnalyzeTurnArguments.player_command =
         AnalyzeTurnArguments.response_to]_vars

\* ------------------------------------------------------------------------
\* the number of turns the Issue-Closer asks get_recent_turns for
RecentTurnsWindow == 5

Last(s) == s[Len(s)]

\* C12 as stated: when CloseIssues runs, the most recent record of the
\* History Store is the one of the command executed in this turn, so the
\* window of the last five records the Issue-Closer reads holds this turn's
\* response; Observe starts only after CloseIssues and Persist only after
\* Observe.
C12_CloseIssuesSeesThisTurn ==
  /\ pc = "close_issues" =>
       /\ DOMAIN turns # {}
       /\ turns[GetLatestTurnNumber(turns)] = ThisTurnRecord
       /\ \E k \in GetRecentTurns(turns, RecentTurnsWindow) :
            turns[k] = ThisTurnRecord
  /\ pc = "observe" => Last(stage_log) = "CloseIssues"
  /\ pc = "persist" => Last(stage_log) = "Observe"

\* ------------------------------------------------------------------------
\* 0.9 x n rounded down, for a stored importance n
Decayed(n) == (n * 9) \div 10

\* the turn is completed: Persist has run and the graph has reached END
PersistCompletes == pc = "persist" /\ pc' = "END"

\* C13: in each completed turn Persist decays exactly once, after the
\* Observer's issue has been inserted: the row inserted with clamped
\* importance I ends the turn with floor(0.9 x I), every row that was open
\* before ends it decayed once, closed rows keep their importance, and no
\* other step of a turn changes an importance or the number of rows.
C13_DecayOncePerTurn ==
  [][/\ PersistCompletes =>
          /\ Len(memories') \in {Len(memories), Len(memories) + 1}
          /\ \A i \in 1..Len(memories) :
               memories'[i].importance =
                 IF memories[i].closed THEN memories[i].importance
                 ELSE Decayed(memories[i].importance)
          /\ Len(memories') > Len(memories) =>
               /\ Strip(observer_response.remember) # <<>>
               /\ memories'[Len(memories')].importance =
                    Decayed(Clamp(IF observer_response.rememberImportance = 0
                                  THEN DefaultImportance
                                  ELSE observer_response.rememberImportance))
     /\ ~PersistCompletes =>
          /\ Len(memories') = Len(memories)
          /\ \A i \in 1..Len(memories) :
               memories'[i].importance = memories[i].importance]_vars

\* a turn has ended with the issue it inserted decayed once, after an
\* earlier turn had been completed
C13_Witness ==
  /\ pc = "END"
  /\ turn_counter = 2
  /\ Len(memories) = 1
  /\ memories[1].turn_number = turn_number
  /\ ~memories[1].closed
  /\ memories[1].importance = Decayed(DefaultImportance)

\* ------------------------------------------------------------------------
RECURSIVE Pow(_, _)
Pow(b, n) == IF n = 0 THEN 1 ELSE b * Pow(b, n - 1)

\* floor(I x 0.9^N)
ClosedForm(I, N) == (I * Pow(9, N)) \div Pow(10, N)

\* C14 as stated: after N decay calls an open issue stored with importance
\* I has importance floor(I x 0.9^N), and a closed issue keeps the
\* importance it had when it was closed (the calls after its closing do not
\* count).
C14_DecayClosedForm ==
  \A i \in 1..Len(memories) :
    memories[i].importance = ClosedForm(m_life[i].initial, m_life[i].decays)

\* ------------------------------------------------------------------------
\* C15 as stated: every stored issue has an importance in [1,1000], after
\* add_memory's conversion and clamping and after any sequence of decay and
\* close calls.
C15_ImportanceInRange ==
  \A i \in 1..Len(memories) :
    /\ memories[i].importance >= MinImportance
    /\ memories[i].importance <= MaxImportance

\* ------------------------------------------------------------------------
\* C16: add_memory with empty or blank content, or with content that after
\* trimming equals the content of a stored issue, open or closed, returns
\* None, does not raise and leaves the store as it was; no two stored
\* issues ever have the same content.
C16_EmptyOrDuplicateRejected ==
  [][/\ m_call'.op = "add"
        /\ \/ Strip(m_call'.content) = <<>>
           \/ \E i \in 1..Len(memories) :
                memories[i].content = Strip(m_call'.content)
        => /\ m_call'.returned = "None"
           /\ memories' = memories
     /\ \A i, j \in 1..Len(memories') :
          i # j => memories'[i].content # memories'[j].content]_vars

\* add_memory was called with the content of a closed issue, with
\* whitespace in front, while another issue was open, and returned None
C16_Witness ==
  /\ m_call.op = "add"
  /\ m_call.content = <<Blank, "a">>
  /\ m_call.returned = "None"
  /\ \E i, j \in 1..Len(memories) :
       /\ memories[i].closed /\ memories[i].content = <<"a">>
       /\ ~memories[j].closed

\* ------------------------------------------------------------------------
\* the contents of all stored issues, open and closed
StoredContents(mem) == {mem[i].content : i \in 1..Len(mem)}

\* C17 as stated: whenever add_memory is called with content that is not
\* empty and not identical to a stored one while issues are stored, the
\* dedup judgment is made, and it is made against the contents of the
\* closed issues as well as the open ones.
C17_JudgedAgainstClosedToo ==
  [][/\ m_call'.op = "add"
     /\ Strip(m_call'.content) # <<>>
     /\ ~CheckDuplicateMemory(memories, Strip(m_call'.content))
     /\ StoredContents(memories) # {}
     => /\ m_call'.judged
        /\ m_call'.existing = StoredContents(memories)]_vars

\* ------------------------------------------------------------------------
\* C18: a closed issue stays closed: no add, decay or close call reopens
\* it, changes its content or importance or deletes it, and the open-issue
\* query never returns it.
C18_ClosedStaysClosed ==
  [][/\ \A i \in 1..Len(memories) :
          memories[i].closed =>
            /\ Len(memories') >= i
            /\ memories'[i] = memories[i]
     /\ LET top == GetTopMemories(memories', TopIssuesLimit)
        IN \A k \in 1..Len(top) : ~memories'[top[k]].closed]_vars

\* an issue was closed, a decay call was made after its closing, and
\* remove_memory was then called on it again
C18_Witness ==
  /\ m_call.op = "close"
  /\ m_call.returned = "False"
  /\ \E i \in 1..Len(memories) :
       /\ memories[i].closed
       /\ memories[i].importance > 0
       /\ m_life[i].decays + memories[i].turn_number - 1 < m_decays

Passable(m) == {e \in m : e.to_location # BLOCKED}

\* the directed chains of recorded non-BLOCKED transitions that lead from
\* one location to another, no longer than the number of such transitions
Chains(m, from_location, to_location) ==
  {c \in UNION {[1..n -> Passable(m)] : n \in 1..Cardinality(Passable(m))} :
     /\ c[1].from_location = from_location
     /\ c[Len(c)].to_location = to_location
     /\ \A i \in 1..(Len(c) - 1) : c[i].to_location = c[i + 1].from_location}

\* where the directions of path lead from location, None when a step is not
\* a recorded transition
RECURSIVE Walk(_, _, _)
Walk(m, location, path) ==
  IF path = <<>> THEN location
  ELSE LET steps == {e \in Passable(m) : e.from_location = location
                                         /\ e.direction = Head(path)}
       IN IF steps = {} THEN None
          ELSE Walk(m, (CHOOSE e \in steps : TRUE).to_location, Tail(path))

\* C20: for from # to, find_path returns None exactly when no directed
\* chain of recorded non-BLOCKED transitions leads from from to to;
\* otherwise it returns directions whose steps are recorded transitions
\* leading from from to to, as many as the shortest such chain has.
C20_FindPathShortest ==
  p_call.op = "find_path" /\ p_call.from # p_call.to =>
    LET chains == Chains(map_transitions, p_call.from, p_call.to)
    IN /\ ~p_call.result.found <=> chains = {}
       /\ p_call.result.found =>
            /\ Walk(map_transitions, p_call.from, p_call.result.path)
                 = p_call.to
            /\ \A c \in chains : Len(p_call.result.path) <= Len(c)

\* find_path returned the one-step path on a map that also holds a two-step
\* chain to the destination and a transition back to the start
C20_Witness ==
  /\ p_call.op = "find_path"
  /\ p_call.result.found
  /\ Len(p_call.result.path) = 1
  /\ \E c \in Chains(map_transitions, p_call.from, p_call.to) : Len(c) = 2
  /\ \E e \in Passable(map_transitions) :
       e.to_location = p_call.from /\ e.from_location # p_call.from

\* ------------------------------------------------------------------------
\* The three path queries of PathFinder, find_path, get_path_string and
\* get_abbreviated_path, on the maps of up to MaxRendered rows
\* ------------------------------------------------------------------------
MaxRendered == 2

RecordMovementRendered == RecordMovementWithin(MaxRendered)

UpdateFromTurnRendered == UpdateFromTurnWithin(MaxRendered, MapCommands)

NextRender ==
  \/ RecordMovementRendered
  \/ UpdateFromTurnRendered
  \/ FindPathCall
  \/ GetPathStringCall
  \/ GetAbbreviatedPathCall

SpecRender == Init /\ [][NextRender]_vars

\* ------------------------------------------------------------------------
\* a step of path, followed from location over the recorded transitions,
\* is a transition whose destination is BLOCKED
RECURSIVE UsesBlocked(_, _, _)
UsesBlocked(m, location, path) ==
  IF path = <<>> THEN FALSE
  ELSE \E e \in m :
         /\ e.from_location = location
         /\ e.direction = Head(path)
         /\ \/ e.to_location = BLOCKED
            \/ UsesBlocked(m, e.to_location, Tail(path))

\* C21: no path returned by find_path contains a step taken from a
\* transition whose destination is BLOCKED, and find_path(A, BLOCKED)
\* returns None for every location A other than BLOCKED.
C21_NeverThroughBlocked ==
  p_call.op = "find_path" =>
    /\ p_call.result.found =>
         ~UsesBlocked(map_transitions, p_call.from, p_call.result.path)
    /\ p_call.to = BLOCKED /\ p_call.from # BLOCKED => ~p_call.result.found

\* find_path(A, BLOCKED) returned None on a map where a BLOCKED attempt and
\* a passable transition leave A
C21_Witness ==
  /\ p_call.op = "find_path"
  /\ p_call.to = BLOCKED
  /\ ~p_call.result.found
  /\ \E e1, e2 \in map_transitions :
       /\ e1.from_location = p_call.from /\ e1.to_location = BLOCKED
       /\ e2.from_location = p_call.from /\ e2.to_location # BLOCKED

\* ------------------------------------------------------------------------
PathQueries == {"find_path", "get_path_string", "get_abbreviated_path"}

\* the locations that occur in a transition of the map
Mapped(m) ==
  {e.from_location : e \in m} \cup {e.to_location : e \in m}

\* C22: find_path(X, X) returns the empty list, never None, whatever the
\* map holds and also for an X that occurs in no transition;
\* get_path_string and get_abbreviated_path return the empty string then.
C22_SameLocationIsEmptyPath ==
  p_call.op \in PathQueries /\ p_call.from = p_call.to =>
    /\ p_call.result.found
    /\ p_call.result.path = <<>>
    /\ p_call.op # "find_path" => p_call.text = <<>>

\* find_path(X, X) was asked on a map with transitions, none of them at X
C22_Witness ==
  /\ p_call.op = "find_path"
  /\ p_call.from = p_call.to
  /\ map_transitions # {}
  /\ p_call.from \notin Mapped(map_transitions)
  /\ p_call.result = [found |-> TRUE, path |-> <<>>]

\* ------------------------------------------------------------------------
\* the abbreviations the ten direction names have
Abbreviations ==
  {<<"NORTH", "N">>, <<"SOUTH", "S">>, <<"EAST", "E">>, <<"WEST", "W">>,
   <<"NORTHEAST", "NE">>, <<"NORTHWEST", "NW">>, <<"SOUTHEAST", "SE">>,
   <<"SOUTHWEST", "SW">>, <<"UP", "U">>, <<"DOWN", "D">>}

Abbreviated(direction) ==
  IF \E a \in Abbreviations : a[1] = direction
  THEN (CHOOSE a \in Abbreviations : a[1] = direction)[2]
  ELSE direction

\* the entries of a text joined by ', ': the pieces between the separators
Entries(text) ==
  [i \in 1..((Len(text) + 1) \div 2) |-> text[2 * i - 1]]

\* entries and separators alternate, and no entry is a separator
JoinedBySeparator(text) ==
  /\ text # <<>> => Len(text) % 2 = 1
  /\ \A i \in 1..Len(text) : (text[i] = Separator) <=> (i % 2 = 0)

\* C23: get_path_string returns the directions of find_path joined by
\* ', ', get_abbreviated_path the same sequence with every direction
\* replaced by its abbreviation (other names unchanged), so both have as
\* many entries as find_path's result; both return 'cannot determine how to
\* get there' exactly when find_path returns None.
C23_RenderedPath ==
  /\ p_call.op \in {"get_path_string", "get_abbreviated_path"} =>
       /\ p_call.text = CannotDetermine <=> ~p_call.result.found
       /\ p_call.result.found =>
            /\ JoinedBySeparator(p_call.text)
            /\ Len(Entries(p_call.text)) = Len(p_call.result.path)
  /\ p_call.op = "get_path_string" /\ p_call.result.found =>
       Entries(p_call.text) = p_call.result.path
  /\ p_call.op = "get_abbreviated_path" /\ p_call.result.found =>
       Entries(p_call.text) =
         [i \in 1..Len(p_call.result.path) |->
            Abbreviated(p_call.result.path[i])]

\* get_abbreviated_path rendered a path of two steps, one direction with an
\* abbreviation and one without
C23_Witness ==
  /\ p_call.op = "get_abbreviated_path"
  /\ p_call.result.found
  /\ p_call.result.path = <<"NORTH", "IN">>
  /\ p_call.text = <<"N", Separator, "IN">>

\* ------------------------------------------------------------------------
\* C24: in every turn SpawnAgents constructs exactly one LoopDetectionAgent
\* and exactly one InteractionAgent; both take part in the research phase
\* and both are handed to Decide.
C24_LoopAndInteractionAgents ==
  pc \in {"start_threads", "join", "research", "decide"} =>
    /\ LoopId \in DOMAIN agents
    /\ InteractionId \in DOMAIN agents
    /\ pc \in {"research", "decide"} =>
         /\ worker[LoopId] = "done"
         /\ worker[InteractionId] = "done"

\* ------------------------------------------------------------------------
\* The map as play() builds it, by update_from_turn after every turn, and
\* the ExplorerAgent part of spawn_agents_node at the location of the turn,
\* on the maps of up to MaxExplored rows
\* ------------------------------------------------------------------------
MaxExplored == 2

\* the commands of the turns: a direction name, its one-letter form, and a
\* command that is no movement
ExploredCommands == {"north", "n", "look"}

UpdateFromTurnExplored == UpdateFromTurnWithin(MaxExplored, ExploredCommands)

\* spawn_agents_node from known_exits to explorer_agent; current_location is
\* the location the map was last updated with
SpawnExplorerCall ==
  /\ previous_location # None
  /\ LET unexplored ==
           UnexploredDirections(map_transitions, previous_location)
         mentioned == MentionedDirections(unexplored)
     IN p_call' = [NoMapCall EXCEPT
                     !.op = "spawn_explorer",
                     !.from = previous_location,
                     !.unexplored = unexplored,
                     !.best = IF unexplored # <<>>
                              THEN PickBestDirection(unexplored, mentioned)
                              ELSE None]
  /\ UNCHANGED <<pipeline_vars, retry_vars, memory_vars, loop_vars, agent_vars>>

NextExplorer ==
  \/ UpdateFromTurnExplored
  \/ SpawnExplorerCall

SpecExplorer == Init /\ [][NextExplorer]_vars

\* the direction a stored direction text stands for: the game takes the
\* one-letter forms as the directions themselves
DirectionOf(direction) ==
  IF \E a \in Abbreviations : a[2] = direction
  THEN (CHOOSE a \in Abbreviations : a[2] = direction)[1]
  ELSE direction

\* the directions in which a movement from location is recorded, BLOCKED
\* attempts included
RecordedDirections(m, location) ==
  {DirectionOf(e.direction) : e \in GetExitsFrom(m, location)}

\* C25: SpawnAgents creates the ExplorerAgent exactly when one of the ten
\* directions has not been attempted from the current location; its
\* unexplored_directions are the directions not yet attempted, so its
\* best_direction is never a direction in which a movement from that
\* location is recorded, attempts recorded as BLOCKED included.
C25_ExplorerAvoidsRecorded ==
  p_call.op = "spawn_explorer" =>
    LET recorded == RecordedDirections(map_transitions, p_call.from) IN
    /\ p_call.best # None <=>
         SeqToSet(CARDINAL_DIRECTIONS) \ recorded # {}
    /\ SeqToSet(p_call.unexplored) = SeqToSet(CARDINAL_DIRECTIONS) \ recorded
    /\ p_call.best \notin recorded

\* ------------------------------------------------------------------------
\* LoopDetectionAgent: the raw history it reads, its parser, its
\* deterministic rules and research_and_propose
\* ------------------------------------------------------------------------
Min(S) == CHOOSE x \in S : \A y \in S : x <= y

RECURSIVE SortedKeys(_)
SortedKeys(S) ==
  IF S = {} THEN <<>>
  ELSE <<Min(S)>> \o SortedKeys(S \ {Min(S)})

\* the last n elements of a sequence, s[-n:]
LastN(s, n) ==
  IF Len(s) <= n THEN s ELSE SubSeq(s, Len(s) - n + 1, Len(s))

\* HistoryState.get_recent_turns: the rows of the n highest turn numbers as
\* GameTurn objects, oldest first
HistoryGetRecentTurns(t, n) ==
  LET keys == SortedKeys(GetRecentTurns(t, n)) IN
  [i \in 1..Len(keys) |->
     [turn_number |-> keys[i],
      player_command |-> t[keys[i]].player_command,
      game_response |-> t[keys[i]].game_response,
      location |-> t[keys[i]].location,
      score |-> t[keys[i]].score]]

\* the get_recent_turns tool: n is brought into 1..20, and the text has
\* one block per turn, "Turn #k (at location) [Score: s]", "Player: ...",
\* "Game: ..."; the location is left out when there is none and the score
\* when it is not positive
GetRecentTurnsTool(t, n) ==
  LET limit == IF n < 1 THEN 1 ELSE IF n > 20 THEN 20 ELSE n
      recent == HistoryGetRecentTurns(t, limit)
  IN IF recent = <<>>
     THEN <<[kind |-> "text", number |-> 0, at |-> None, score |-> None,
             player |-> "No turns recorded yet.", game |-> None]>>
     ELSE [i \in 1..Len(recent) |->
             [kind |-> "turn",
              number |-> recent[i].turn_number,
              at |-> recent[i].location,
              score |-> IF recent[i].score > 0
                        THEN recent[i].score ELSE None,
              player |-> recent[i].player_command,
              game |-> recent[i].game_response]]

\* str.strip() on the commands of the model
StripCommand(command) ==
  CASE command = " " -> ""
    [] OTHER -> command

NoTurn == [turn_number |-> 0, location |-> None, command |-> "",
           score |-> None]

\* the loop of _parse_turns over the blocks: a header that matches
\* "Turn #(\d+) \(at (.+?)\)" starts a turn with score None; a header
\* without location matches nothing and leaves current_turn as it was,
\* after it has been appended; "Player:" sets the command, stripped
RECURSIVE ParseLines(_, _, _)
ParseLines(blocks, parsed, current_turn) ==
  IF blocks = <<>>
  THEN IF current_turn # NoTurn THEN Append(parsed, current_turn) ELSE parsed
  ELSE LET block == Head(blocks) IN
       IF block.kind # "turn"
       THEN ParseLines(Tail(blocks), parsed, current_turn)
       ELSE LET appended == IF current_turn # NoTurn
                            THEN Append(parsed, current_turn) ELSE parsed
                header == IF block.at # None
                           THEN [turn_number |-> block.number,
                                 location |-> block.at,
                                 command |-> "",
                                 score |-> None]
                           ELSE current_turn
                commanded == IF header # NoTurn
                             THEN [header EXCEPT
                                     !.command = StripCommand(block.player)]
                             ELSE header
            IN ParseLines(Tail(blocks), appended, commanded)

\* LoopDetectionAgent._parse_turns
ParseTurns(raw_history) == ParseLines(raw_history, <<>>, NoTurn)

\* for turn in reversed(parsed_turns): count while the location is the
\* current one, break at the first other location
RECURSIVE CountBackwards(_, _)
CountBackwards(parsed_turns, current_location) ==
  IF parsed_turns = <<>> THEN 0
  ELSE IF parsed_turns[Len(parsed_turns)].location = current_location
  THEN 1 + CountBackwards(SubSeq(parsed_turns, 1, Len(parsed_turns) - 1),
                          current_location)
  ELSE 0

\* a count of every turn at the current location, consecutive or not
VisitsAtCurrent(parsed_turns, current_location) ==
  Cardinality({i \in 1..Len(parsed_turns) :
                 parsed_turns[i].location = current_location})

\* consecutive_at_current
ConsecutiveAtCurrent(parsed_turns, current_location) ==
  CountBackwards(parsed_turns, current_location)

\* _generate_breaking_action: the first available exit whose upper-case
\* form is not among the recent commands, otherwise INVENTORY
BreakingAction(available_exits, recent_commands) ==
  LET fresh == {i \in 1..Len(available_exits) :
                  /\ available_exits[i] # ""
                  /\ Upper(available_exits[i]) \notin recent_commands}
  IN IF fresh # {} THEN Upper(available_exits[Min(fresh)]) ELSE "INVENTORY"

\* _generate_explicit_reason: the text filled from the evidence
ExplicitReason(loop_type, proposed_action) ==
  <<"CRITICAL LOOP DETECTED", loop_type, proposed_action>>

Detected(loop_type, available_exits, recent_commands) ==
  LET breaking_action == BreakingAction(available_exits, recent_commands) IN
  [loop_type |-> loop_type,
   proposed_action |-> breaking_action,
   reason |-> ExplicitReason(loop_type, breaking_action)]

CommandsOf(parsed_turns) ==
  {parsed_turns[i].command : i \in 1..Len(parsed_turns)}

LocationsOf(parsed_turns) ==
  {parsed_turns[i].location : i \in 1..Len(parsed_turns)}

\* an oscillation check that does not count the location changes
OscillatingWithoutChanges(recent) ==
  Cardinality(LocationsOf(recent)) = 2

\* Check 2 on the last 6 turns: two unique locations and 3 or more changes
\* of location between adjacent turns
Oscillating(recent) ==
  /\ Cardinality(LocationsOf(recent)) = 2
  /\ Cardinality({i \in 1..(Len(recent) - 1) :
                    recent[i].location # recent[i + 1].location}) >= 3

\* a Check 3 that skips no pair
SkipsNoPair(location, command, current_location) ==
  FALSE

\* Check 3: a pair is passed over when the player is no longer at its
\* location or its command is empty
SkipsPair(location, command, current_location) ==
  \/ location # current_location
  \/ command = ""
  \/ StripCommand(command) = ""

\* Check 3 on the last 5 turns: the (location, command) pairs met 3 or more
\* times that are not passed over.  At most one pair is met 3 times in 5
\* turns, so the order of the dictionary does not matter.
RepeatedPairs(recent, current_location) ==
  {pair \in {<<recent[i].location, recent[i].command>> :
               i \in 1..Len(recent)} :
     /\ Cardinality({i \in 1..Len(recent) :
                       <<recent[i].location, recent[i].command>> = pair}) >= 3
     /\ ~SkipsPair(pair[1], pair[2], current_location)}

\* Check 4: scores = [current_score] * len(parsed_turns), so the comparison
\* of the last 8 scores with current_score is between equal numbers
ScoresUnchanged(parsed_turns, current_score) ==
  LET scores == [i \in 1..Len(parsed_turns) |-> current_score] IN
  \A i \in 1..Len(LastN(scores, 8)) : LastN(scores, 8)[i] = current_score

\* a rule pass that looks for a repeated action before an oscillation
CheckDeterministicLoopsReordered(parsed_turns, current_location, current_score, available_exits) ==
  LET consecutive_at_current ==
        ConsecutiveAtCurrent(parsed_turns, current_location)
  IN
  IF parsed_turns = <<>> THEN NoLoop
  ELSE IF consecutive_at_current >= 5
  THEN Detected("stuck_location", available_exits,
                CommandsOf(LastN(parsed_turns, consecutive_at_current)))
  ELSE IF /\ Len(parsed_turns) >= 3
          /\ RepeatedPairs(LastN(parsed_turns, 5), current_location) # {}
  THEN Detected("repeated_action", available_exits,
                CommandsOf(LastN(parsed_turns, 5)))
  ELSE IF Len(parsed_turns) >= 6 /\ Oscillating(LastN(parsed_turns, 6))
  THEN Detected("oscillating", available_exits,
                CommandsOf(LastN(parsed_turns, 6)))
  ELSE IF /\ Len(parsed_turns) >= 8
          /\ ScoresUnchanged(parsed_turns, current_score)
          /\ Cardinality(LocationsOf(LastN(parsed_turns, 12))) <= 2
  THEN Detected("score_stagnation", available_exits,
                CommandsOf(LastN(parsed_turns, 8)))
  ELSE NoLoop

\* LoopDetectionAgent._check_deterministic_loops
CheckDeterministicLoops(parsed_turns, current_location, current_score, available_exits) ==
  LET consecutive_at_current ==
        ConsecutiveAtCurrent(parsed_turns, current_location)
  IN
  IF parsed_turns = <<>> THEN NoLoop
  ELSE IF consecutive_at_current >= 5
  THEN Detected("stuck_location", available_exits,
                CommandsOf(LastN(parsed_turns, consecutive_at_current)))
  ELSE IF Len(parsed_turns) >= 6 /\ Oscillating(LastN(parsed_turns, 6))
  THEN Detected("oscillating", available_exits,
                CommandsOf(LastN(parsed_turns, 6)))
  ELSE IF /\ Len(parsed_turns) >= 3
          /\ RepeatedPairs(LastN(parsed_turns, 5), current_location) # {}
  THEN Detected("repeated_action", available_exits,
                CommandsOf(LastN(parsed_turns, 5)))
  ELSE IF /\ Len(parsed_turns) >= 8
          /\ ScoresUnchanged(parsed_turns, current_score)
          /\ Cardinality(LocationsOf(LastN(parsed_turns, 12))) <= 2
  THEN Detected("score_stagnation", available_exits,
                CommandsOf(LastN(parsed_turns, 8)))
  ELSE NoLoop

\* a research_and_propose that goes on to the LLM analysis whatever the
\* rules found
ProceedsToAnalysisAlways(deterministic_result) ==
  TRUE

\* "if deterministic_result: ... return", else Phase 3
ProceedsToAnalysis(deterministic_result) ==
  deterministic_result = NoLoop

\* what the research step may do: fail after its retries, answer without a
\* get_recent_turns tool call, or make the tool call
ResearchOutcomes == {"raises", "no_tool_call", "tool_call"}

\* what the analysis chain may answer when it does not fail
AnalysisResponses ==
  {[loop_detected |-> FALSE, loop_type |-> "", proposed_action |-> "nothing",
    reason |-> <<"No loop pattern detected in recent history">>,
    confidence |-> 0],
   [loop_detected |-> TRUE, loop_type |-> "oscillating",
    proposed_action |-> "LOOK", reason |-> <<"model">>, confidence |-> 95]}

\* the window of raw history the agent asks for
LoopWindow == 10

DeterministicConfidence == 98

\* a research_and_propose that never invalidates an earlier detection
MovedSinceDetectionIgnored(last_detection_location, current_location) ==
  FALSE

\* "if self.last_detection_location and self.last_detection_location !=
\* current_location"
MovedSinceDetection(last_detection_location, current_location) ==
  /\ last_detection_location # ""
  /\ last_detection_location # current_location

\* get_mapper_tools: the tools handed to the agents, by the names LangChain
\* gives them (a @tool is named after its function)
MapperToolNames == {"get_map", "get_exits_from_location"}

\* get_exits_from_location: the answer, as the pieces that split(',') cuts
\* it into
GetExitsFromLocationTool(m, location) ==
  IF GetExitsFrom(m, location) = {}
  THEN <<"No known exits from the location. Either you haven't been there yet",
         "or you haven't tried moving from there.">>
  ELSE <<"KNOWN EXITS FROM the location: the directions -> destinations">>

\* Phase 2, the parse of exits_result: a piece "direction → destination"
\* gives the direction unless the destination is BLOCKED, a piece without
\* "→" is taken whole; no piece of the tool's answer holds "→"
ParseExits(pieces) == pieces

\* Phase 2: the tool is looked up under the name "get_exits_from"
AvailableExitsOf(m, current_location) ==
  IF "get_exits_from" \in MapperToolNames
  THEN ParseExits(GetExitsFromLocationTool(m, current_location))
  ELSE <<>>

\* LoopDetectionAgent.research_and_propose on an agent with the fields self
\* and last_detection_location, in a turn whose record is in the history:
\* the current location and score are the ones of the latest turn
ResearchAndPropose(self, last_detection_location) ==
  /\ DOMAIN turns # {}
  /\ LET latest == turns[GetLatestTurnNumber(turns)]
         current_location == latest.location
         current_score == latest.score
         entered == [NoLoopCall EXCEPT
                       !.op = "research_and_propose",
                       !.current_location = current_location,
                       !.before = self,
                       !.last_before = last_detection_location,
                       !.last_detection_location = last_detection_location,
                       !.agent =
                         IF MovedSinceDetection(last_detection_location,
                                                current_location)
                         THEN [self EXCEPT
                                 !.loop_detected = FALSE,
                                 !.confidence = 0,
                                 !.proposed_action = "nothing",
                                 !.loop_type = "",
                                 !.reason = <<>>]
                         ELSE self]
     IN \E research \in ResearchOutcomes :
          IF research = "raises"
          THEN l_call' = [entered EXCEPT !.outcome = "raised"]
          ELSE
          LET raw_history == IF research = "tool_call"
                             THEN GetRecentTurnsTool(turns, LoopWindow)
                             ELSE <<>>
          IN
          IF raw_history = <<>>
          THEN l_call' = [entered EXCEPT
                            !.outcome = "returned",
                            !.agent.proposed_action = "nothing",
                            !.agent.confidence = 0]
          ELSE
            LET available_exits ==
                  AvailableExitsOf(map_transitions, current_location)
                parsed_turns == ParseTurns(raw_history)
                deterministic_result ==
                  CheckDeterministicLoops(parsed_turns, current_location,
                                          current_score, available_exits)
                checked == [entered EXCEPT
                              !.retrieved = TRUE,
                              !.available_exits = available_exits,
                              !.parsed = parsed_turns,
                              !.deterministic = deterministic_result]
            IN
            IF ~ProceedsToAnalysis(deterministic_result)
            THEN l_call' =
                   [checked EXCEPT
                      !.outcome = "returned",
                      !.agent =
                        [loop_detected |-> TRUE,
                         loop_type |-> deterministic_result.loop_type,
                         proposed_action |->
                           deterministic_result.proposed_action,
                         reason |-> deterministic_result.reason,
                         confidence |-> DeterministicConfidence],
                      !.last_detection_location = current_location]
            ELSE
            \/ l_call' = [checked EXCEPT
                             !.outcome = "raised",
                             !.analysis = TRUE]
            \/ \E response \in AnalysisResponses :
                 l_call' = [checked EXCEPT
                              !.outcome = "returned",
                              !.analysis = TRUE,
                              !.response = response,
                              !.agent = response,
                              !.last_detection_location =
                                IF response.loop_detected
                                THEN current_location
                                ELSE last_detection_location]
  /\ UNCHANGED <<pipeline_vars, retry_vars, memory_vars, map_vars, agent_vars>>

\* research_and_propose on a newly constructed agent
LoopDetectorCall ==
  /\ LoopIdle
  /\ ResearchAndPropose(NewLoopDetectionAgent, "")

\* the locations of the game, named in the order the player first reaches
\* them
LoopLocations == <<"A", "B", "C">>

\* what a turn may add to the score
ScoreGains == {0, 5}

\* the score of the latest turn, 0 before the first
LatestScore(t) ==
  IF DOMAIN t = {} THEN 0 ELSE t[GetLatestTurnNumber(t)].score

\* HistoryState.add_turn for a turn of the game: the player is at one of
\* the first `places` locations, one already visited or the next new one,
\* and the score rises at most once
AddTurnOf(limit, places, commands, gains) ==
  /\ turn_counter < limit
  /\ \E k \in 1..places, command \in commands, gain \in gains :
       /\ k <= Cardinality({turns[j].location : j \in DOMAIN turns}) + 1
       /\ gain = 0 \/ LatestScore(turns) = 0
       /\ turn_counter' = turn_counter + 1
       /\ turns' = DbAddTurn(turns, turn_counter',
                             [player_command |-> command,
                              game_response |-> None,
                              location |-> LoopLocations[k],
                              score |-> LatestScore(turns) + gain])
  /\ l_call' = NoLoopCall
  /\ UNCHANGED <<pc, turn_number, input_text, zork_response, opens, blocked,
                 summaries, previous_location, map_transitions, memories,
                 items, agents, threads, started, worker, decision,
                 observer_response, stage_log, failed_at, exhausted, game_sent,
                 sent_at_failure, turn_start, persisted_at_open, game_location,
                 retry_vars, memory_vars, map_vars, agent_vars>>

\* ------------------------------------------------------------------------
\* The loop detector over the histories of up to MaxLoopTurns turns in three
\* locations, every turn with the same command and score
\* ------------------------------------------------------------------------
MaxLoopTurns == 10

AddTurnLoop == AddTurnOf(MaxLoopTurns, 3, {"look"}, {0})

NextLoop ==
  \/ AddTurnLoop
  \/ LoopDetectorCall

SpecLoop == Init /\ [][NextLoop]_vars

\* ------------------------------------------------------------------------
\* The loop detector over the histories of up to MaxRepeatTurns turns in two
\* locations with three commands, one of them empty
\* ------------------------------------------------------------------------
MaxRepeatTurns == 5

RepeatCommands == {"look", "take", ""}

AddTurnRepeat == AddTurnOf(MaxRepeatTurns, 2, RepeatCommands, {0})

NextRepeat ==
  \/ AddTurnRepeat
  \/ LoopDetectorCall

SpecRepeat == Init /\ [][NextRepeat]_vars

\* ------------------------------------------------------------------------
\* The loop detector over the histories of up to MaxStagnantTurns turns in
\* two locations, in which the score may rise
\* ------------------------------------------------------------------------
MaxStagnantTurns == 8

AddTurnStagnant == AddTurnOf(MaxStagnantTurns, 2, {"look"}, ScoreGains)

NextStagnation ==
  \/ AddTurnStagnant
  \/ LoopDetectorCall

SpecStagnation == Init /\ [][NextStagnation]_vars

\* ------------------------------------------------------------------------
\* the turns of the history the call looked at: the last LoopWindow rows of
\* the turns table, oldest first
WindowTurns ==
  LET keys == {k \in DOMAIN turns :
                 Cardinality({j \in DOMAIN turns : j > k}) < LoopWindow}
  IN [i \in 1..Cardinality(keys) |->
        turns[CHOOSE k \in keys : Cardinality({j \in keys : j <= k}) = i]]

\* the number of consecutive turns at location at the end of rows
TrailingAt(rows, location) ==
  Max({k \in 0..Len(rows) :
         \A i \in (Len(rows) - k + 1)..Len(rows) :
           rows[i].location = location})

Called == l_call.op = "research_and_propose"

LastLocations(rows, n) ==
  [i \in 1..Len(LastN(rows, n)) |-> LastN(rows, n)[i].location]

\* C27: when stuck_location does not fire and the window holds at least 6
\* turns, oscillating is reported exactly when the last 6 turns contain
\* exactly 2 distinct locations and at least 3 location changes between
\* adjacent turns.
C27_OscillatingOnPingPong ==
  /\ Called /\ l_call.retrieved
  /\ l_call.deterministic.loop_type # "stuck_location"
  /\ Len(WindowTurns) >= 6
  => LET last == LastLocations(WindowTurns, 6) IN
     l_call.deterministic.loop_type = "oscillating"
       <=> /\ Cardinality(SeqToSet(last)) = 2
           /\ Cardinality({i \in 1..5 : last[i] # last[i + 1]}) >= 3

\* the sequence [A,B,A,B,A,B] was reported as oscillating
C27_Witness ==
  /\ Called
  /\ Len(WindowTurns) >= 6
  /\ LastLocations(WindowTurns, 6) = <<"A", "B", "A", "B", "A", "B">>
  /\ l_call.agent.loop_type = "oscillating"
  /\ l_call.agent.confidence = 98

\* C28: repeated_action is reported only if some (location, command) pair
\* with a non-empty command occurs at least 3 times within the last 5 turns
\* and that pair's location is the current location.
C28_RepeatedActionAtCurrentLocation ==
  Called /\ l_call.deterministic.loop_type = "repeated_action" =>
    LET last == LastN(WindowTurns, 5) IN
    \E i \in 1..Len(last) :
      /\ last[i].player_command # ""
      /\ last[i].location = l_call.current_location
      /\ Cardinality({j \in 1..Len(last) :
                        /\ last[j].location = last[i].location
                        /\ last[j].player_command = last[i].player_command})
           >= 3

\* repeated_action was reported for a command given 3 times at the current
\* location, with turns at another location among the last 5
C28_Witness ==
  /\ Called
  /\ l_call.agent.loop_type = "repeated_action"
  /\ \E i \in 1..Len(LastN(WindowTurns, 5)) :
       LastN(WindowTurns, 5)[i].location # l_call.current_location

\* C29: score_stagnation is reported only if the score was the same in each
\* of the last 8 turns and at most 2 distinct locations occur in the last
\* 12 turns; it is never reported when the score changed within the last 8
\* turns.
C29_StagnationOnlyWithoutScoreChange ==
  Called /\ l_call.deterministic.loop_type = "score_stagnation" =>
    /\ \A i, j \in 1..Len(LastN(WindowTurns, 8)) :
         LastN(WindowTurns, 8)[i].score = LastN(WindowTurns, 8)[j].score
    /\ Cardinality(SeqToSet(LastLocations(WindowTurns, 12))) <= 2

\* C30: the LLM loop analysis is invoked in a call if and only if raw
\* history was retrieved and no deterministic rule fired; when a rule
\* fires, the reported loop_type, action and reason are the deterministic
\* ones.
C30_AnalysisOnlyWhenNoRuleFired ==
  Called =>
    /\ l_call.analysis <=> (l_call.retrieved /\ l_call.deterministic = NoLoop)
    /\ l_call.deterministic # NoLoop =>
         /\ l_call.agent.loop_type = l_call.deterministic.loop_type
         /\ l_call.agent.proposed_action =
              l_call.deterministic.proposed_action
         /\ l_call.agent.reason = l_call.deterministic.reason

\* a rule fired, the analysis was not invoked, and the agent proposes the
\* action the rules chose
C30_Witness ==
  /\ Called
  /\ l_call.retrieved
  /\ l_call.deterministic # NoLoop
  /\ ~l_call.analysis
  /\ l_call.agent.proposed_action = l_call.deterministic.proposed_action
  /\ l_call.agent.reason = l_call.deterministic.reason

\* ------------------------------------------------------------------------
\* The loop detector in turns of the game: every turn is recorded in the
\* history and in the map before the agents run
\* ------------------------------------------------------------------------
MaxBreakTurns == 7

BreakCommands == {"look", "north", "south"}

\* the game: B lies north of A, every other way is blocked
GameMove(location, command) ==
  CASE location = "A" /\ command = "north" -> "B"
    [] location = "B" /\ command = "south" -> "A"
    [] OTHER -> location

\* play_turn, Step 2 and Step 2b: the history and the mapper are updated with
\* the command and the location the game answered with
PlayedTurn ==
  /\ turn_counter < MaxBreakTurns
  /\ \E command \in BreakCommands :
       LET at == IF DOMAIN turns = {} THEN "A"
                 ELSE turns[GetLatestTurnNumber(turns)].location
           current_location == GameMove(at, command)
       IN /\ turn_counter' = turn_counter + 1
          /\ turns' = DbAddTurn(turns, turn_counter',
                                [player_command |-> command,
                                 game_response |-> None,
                                 location |-> current_location,
                                 score |-> 0])
          /\ map_transitions' =
               UpdateFromTurn(map_transitions, previous_location,
                              current_location, command, turn_counter')
          /\ previous_location' = current_location
  /\ l_call' = NoLoopCall
  /\ UNCHANGED <<pc, turn_number, input_text, zork_response, opens, blocked,
                 summaries, memories, items, agents, threads, started, worker,
                 decision, observer_response, stage_log, failed_at, exhausted,
                 game_sent, sent_at_failure, turn_start, persisted_at_open,
                 game_location, retry_vars, memory_vars, map_vars, agent_vars>>

NextBreak ==
  \/ PlayedTurn
  \/ LoopDetectorCall

SpecBreak == Init /\ [][NextBreak]_vars

\* the turns the rule that fired took its recent commands from
EvidenceTurns ==
  CASE l_call.deterministic.loop_type = "stuck_location" ->
         LastN(WindowTurns,
               TrailingAt(WindowTurns, l_call.current_location))
    [] l_call.deterministic.loop_type = "oscillating" ->
         LastN(WindowTurns, 6)
    [] l_call.deterministic.loop_type = "repeated_action" ->
         LastN(WindowTurns, 5)
    [] OTHER -> LastN(WindowTurns, 8)

\* the directions of the exits of the current location that are not BLOCKED
\* and that no command of the evidence window attempted
FreshExits ==
  {e.direction : e \in
     {x \in GetExitsFrom(map_transitions, l_call.current_location) :
        /\ x.to_location # BLOCKED
        /\ \A i \in 1..Len(EvidenceTurns) :
             Upper(EvidenceTurns[i].player_command) # x.direction}}

\* C31: whenever a deterministic loop rule fires, confidence is 98 and the
\* proposed breaking action is an exit of the current location that is not
\* BLOCKED and was not attempted in the evidence window, or INVENTORY when
\* there is no such exit.
C31_BreakingActionIsFreshExit ==
  Called /\ l_call.deterministic # NoLoop =>
    /\ l_call.agent.confidence = 98
    /\ IF FreshExits # {}
       THEN l_call.agent.proposed_action \in FreshExits
       ELSE l_call.agent.proposed_action = "INVENTORY"

\* the rules in the order of the claim
RuleOrder ==
  <<"stuck_location", "oscillating", "repeated_action", "score_stagnation">>

\* whether the condition of rule i holds on the turns the call looked at
RuleHolds(i) ==
  LET rows == WindowTurns
      last6 == LastLocations(rows, 6)
      last5 == LastN(rows, 5)
      last8 == LastN(rows, 8)
  IN CASE i = 1 -> TrailingAt(rows, l_call.current_location) >= 5
       [] i = 2 -> /\ Len(rows) >= 6
                   /\ Cardinality(SeqToSet(last6)) = 2
                   /\ Cardinality({k \in 1..5 : last6[k] # last6[k + 1]}) >= 3
       [] i = 3 -> \E k \in 1..Len(last5) :
                     /\ last5[k].player_command # ""
                     /\ last5[k].location = l_call.current_location
                     /\ Cardinality({j \in 1..Len(last5) :
                            /\ last5[j].location = last5[k].location
                            /\ last5[j].player_command =
                                 last5[k].player_command}) >= 3
       [] OTHER -> /\ Len(rows) >= 8
                   /\ \A k \in 1..8 : last8[k].score = last8[1].score
                   /\ Cardinality(SeqToSet(LastLocations(rows, 12))) <= 2

HoldingRules == {i \in 1..4 : RuleHolds(i)}

\* C33: when the conditions of several deterministic rules hold at once, the
\* reported loop_type is that of the first in the order stuck_location,
\* oscillating, repeated_action, score_stagnation; one loop type is reported
\* per call.
C33_FirstMatchWins ==
  Called /\ l_call.retrieved =>
    IF HoldingRules = {}
    THEN l_call.deterministic = NoLoop
    ELSE /\ l_call.deterministic.loop_type = RuleOrder[Min(HoldingRules)]
         /\ l_call.agent.loop_type = RuleOrder[Min(HoldingRules)]

\* the conditions of oscillating, repeated_action and score_stagnation held
\* together and oscillating was reported
C33_Witness ==
  /\ Called /\ l_call.retrieved
  /\ HoldingRules = {2, 3, 4}
  /\ l_call.agent.loop_type = "oscillating"

\* ------------------------------------------------------------------------
\* One LoopDetectionAgent invoked turn after turn: its fields and
\* last_detection_location are kept from call to call
\* ------------------------------------------------------------------------
MaxReinvokeTurns == 5

\* HistoryState.add_turn between two invocations of the same agent
AddTurnReinvoked ==
  /\ turn_counter < MaxReinvokeTurns
  /\ \E k \in 1..2 :
       /\ k <= Cardinality({turns[j].location : j \in DOMAIN turns}) + 1
       /\ turn_counter' = turn_counter + 1
       /\ turns' = DbAddTurn(turns, turn_counter',
                             [player_command |-> "look",
                              game_response |-> None,
                              location |-> LoopLocations[k],
                              score |-> 0])
  /\ l_call' = [l_call EXCEPT !.op = "none"]
  /\ UNCHANGED <<pc, turn_number, input_text, zork_response, opens, blocked,
                 summaries, previous_location, map_transitions, memories,
                 items, agents, threads, started, worker, decision,
                 observer_response, stage_log, failed_at, exhausted, game_sent,
                 sent_at_failure, turn_start, persisted_at_open, game_location,
                 retry_vars, memory_vars, map_vars, agent_vars>>

\* research_and_propose on the agent as the previous call left it
LoopDetectorReinvoked ==
  /\ l_call.op = "none"
  /\ ResearchAndPropose(l_call.agent, l_call.last_detection_location)

NextReinvoke ==
  \/ AddTurnReinvoked
  \/ LoopDetectorReinvoked

SpecReinvoke == Init /\ [][NextReinvoke]_vars

\* the call detected a loop anew, by a rule or by the analysis
DetectedAnew ==
  \/ l_call.deterministic # NoLoop
  \/ l_call.analysis /\ l_call.outcome = "returned"
       /\ l_call.response.loop_detected

MaxInteractions == 3

\* the game responses of the model
GameResponses ==
  {<<"there", "is", "a", "lamp", "here">>,
   <<"a", "sword", "lies", "on", "the", "floor">>,
   <<"you", "see", "a", "button">>,
   <<"you", "see", "a", "door">>,
   <<"the", "mailbox", "is", "closed">>,
   <<"the", "door", "is", "locked">>,
   <<"a", "lever", "is", "set", "in", "the", "wall">>,
   <<"there", "are", "a", "lamp", "and", "a", "sword", "here">>,
   <<"the", "switch", "is", "on", "the", "wall">>,
   <<"closed">>,
   <<"you", "are", "in", "a", "forest">>}

\* the inventories of the model, an item as the sequence of its words
HeldItems == {<<>>, << <<"brass", "key">> >>}

\* str.upper() on the words of the model
UpperWord(w) ==
  CASE w = "lamp" -> "LAMP"
    [] w = "sword" -> "SWORD"
    [] w = "button" -> "BUTTON"
    [] w = "door" -> "DOOR"
    [] w = "mailbox" -> "MAILBOX"
    [] w = "lever" -> "LEVER"
    [] w = "dial" -> "DIAL"
    [] w = "switch" -> "SWITCH"
    [] w = "knob" -> "KNOB"
    [] OTHER -> w

\* the word at position i, "" beyond the text
WordAt(text, i) == IF i \in 1..Len(text) THEN text[i] ELSE ""

IsArticle(w) == w \in {"a", "an"}

\* the rest of the first takeable pattern after the item at position g:
\* "(?: and (?:a |an )?(\w+))? here"
ThereTail(text, g) ==
  \/ WordAt(text, g + 1) = "here"
  \/ /\ WordAt(text, g + 1) = "and"
     /\ \/ IsArticle(WordAt(text, g + 2)) /\ WordAt(text, g + 4) = "here"
        \/ WordAt(text, g + 2) # "" /\ WordAt(text, g + 3) = "here"

\* r"there (?:is|are) (?:a |an )?(\w+)(?: and (?:a |an )?(\w+))? here":
\* the positions of group 1 over the matches, the greedy one first at a start
ThereMatch(text) ==
  LET starts == {i \in 1..Len(text) :
                   /\ text[i] = "there"
                   /\ WordAt(text, i + 1) \in {"is", "are"}
                   /\ \/ IsArticle(WordAt(text, i + 2))
                           /\ WordAt(text, i + 3) # ""
                           /\ ThereTail(text, i + 3)
                      \/ WordAt(text, i + 2) # "" /\ ThereTail(text, i + 2)}
  IN IF starts = {} THEN None
     ELSE LET i == Min(starts) IN
          IF /\ IsArticle(WordAt(text, i + 2)) /\ WordAt(text, i + 3) # ""
             /\ ThereTail(text, i + 3)
          THEN text[i + 3] ELSE text[i + 2]

\* r"you (?:see|notice) (?:a |an )?(\w+)"
YouSeeMatch(text) ==
  LET starts == {i \in 1..Len(text) :
                   /\ text[i] = "you"
                   /\ WordAt(text, i + 1) \in {"see", "notice"}
                   /\ WordAt(text, i + 2) # ""}
  IN IF starts = {} THEN None
     ELSE LET i == Min(starts) IN
          IF IsArticle(text[i + 2]) /\ WordAt(text, i + 3) # ""
          THEN text[i + 3] ELSE text[i + 2]

\* r"(?:a |an )?(\w+) (?:sits|lies|rests) (?:here|on the \w+)"
SitsMatch(text) ==
  LET nouns == {i \in 1..Len(text) :
                  /\ WordAt(text, i + 1) \in {"sits", "lies", "rests"}
                  /\ \/ WordAt(text, i + 2) = "here"
                     \/ /\ WordAt(text, i + 2) = "on"
                        /\ WordAt(text, i + 3) = "the"
                        /\ WordAt(text, i + 4) # ""}
  IN IF nouns = {} THEN None ELSE text[Min(nouns)]

\* the location descriptors a takeable match is skipped for
TakeableSkipped ==
  {"door", "room", "hallway", "corridor", "wall", "floor", "ceiling"}

\* Pattern 1: the item of the first takeable pattern that matches with an
\* item that is not skipped
TakeableItem(text) ==
  LET found == <<ThereMatch(text), YouSeeMatch(text), SitsMatch(text)>>
      kept == {k \in 1..3 : found[k] # None /\ found[k] \notin TakeableSkipped}
  IN IF kept = {} THEN None ELSE found[Min(kept)]

\* r"(\w+) (?:is |are )?<state>" for 'closed' and 'locked': the word of the
\* leftmost match
StateMatch(text, state) ==
  LET starts == {i \in 1..Len(text) :
                   \/ WordAt(text, i + 1) = state
                   \/ /\ WordAt(text, i + 1) \in {"is", "are"}
                      /\ WordAt(text, i + 2) = state}
  IN IF starts = {} THEN None ELSE text[Min(starts)]

\* any('key' in item.lower() for item in inventory)
HasKey(inventory) ==
  \E k \in 1..Len(inventory) : "key" \in SeqToSet(inventory[k])

InteractiveKeywords == <<"button", "lever", "dial", "switch", "knob">>

ActionVerb(keyword) ==
  CASE keyword = "button" -> "PRESS"
    [] keyword = "lever" -> "PULL"
    [] keyword = "dial" -> "TURN"
    [] keyword = "switch" -> "FLIP"
    [] keyword = "knob" -> "TURN"
    [] OTHER -> "EXAMINE"

NoMatch == [action |-> <<>>, confidence |-> 0]

\* a _deterministic_parse whose locked object without a key is no match
LockedWithoutKeyUnmatched(obj) ==
  NoMatch

\* Pattern 3 without a key in the inventory
LockedWithoutKey(obj) ==
  [action |-> <<"EXAMINE", UpperWord(obj)>>, confidence |-> 60]

\* InteractionAgent._deterministic_parse
DeterministicParse(text, inventory) ==
  LET keywords == {k \in 1..Len(InteractiveKeywords) :
                     InteractiveKeywords[k] \in SeqToSet(text)}
  IN
  IF TakeableItem(text) # None
  THEN [action |-> <<"TAKE", UpperWord(TakeableItem(text))>>,
        confidence |-> 90]
  ELSE IF "closed" \in SeqToSet(text) /\ StateMatch(text, "closed") # None
  THEN [action |-> <<"OPEN", UpperWord(StateMatch(text, "closed"))>>,
        confidence |-> 85]
  ELSE IF "locked" \in SeqToSet(text) /\ StateMatch(text, "locked") # None
  THEN IF HasKey(inventory)
       THEN [action |-> <<"UNLOCK", UpperWord(StateMatch(text, "locked")),
                          "WITH", "KEY">>,
             confidence |-> 95]
       ELSE LockedWithoutKey(StateMatch(text, "locked"))
  ELSE IF keywords # {}
  THEN [action |-> <<ActionVerb(InteractiveKeywords[Min(keywords)]),
                     UpperWord(InteractiveKeywords[Min(keywords)])>>,
        confidence |-> 80]
  ELSE NoMatch

\* Phase 1: the inventory list parsed from get_inventory's answer, which is
\* "Your inventory is empty." or the items joined by ", "
ParseInventoryList(held) ==
  IF held = <<>> \/ \E k \in 1..Len(held) : "empty" \in SeqToSet(held[k])
  THEN <<>>
  ELSE held

\* what the analysis chain may answer when it does not fail
InteractionResponses ==
  {[proposed_action |-> <<"nothing">>, confidence |-> 0],
   [proposed_action |-> <<"EXAMINE", "DOOR">>, confidence |-> 60]}

\* InteractionAgent.research_and_propose on a newly constructed agent
InteractionAgentCall ==
  /\ a_call.calls < MaxInteractions
  /\ \E current_game_response \in GameResponses, held \in HeldItems,
        research \in ResearchOutcomes :
       LET inventory_list == IF research = "tool_call"
                             THEN ParseInventoryList(held)
                             ELSE <<>>
           deterministic_result ==
             DeterministicParse(current_game_response, inventory_list)
           entered == [NoAgentCall EXCEPT
                         !.op = "interaction",
                         !.calls = a_call.calls + 1,
                         !.game_response = current_game_response,
                         !.inventory = inventory_list]
       IN IF deterministic_result # NoMatch
          THEN a_call' = [entered EXCEPT
                            !.matched = TRUE,
                            !.outcome = "returned",
                            !.proposed_action = deterministic_result.action,
                            !.confidence = deterministic_result.confidence]
          ELSE
          \/ a_call' = [entered EXCEPT
                          !.analysis = TRUE,
                          !.outcome = "raised"]
          \/ \E response \in InteractionResponses :
               a_call' = [entered EXCEPT
                            !.analysis = TRUE,
                            !.outcome = "returned",
                            !.proposed_action = response.proposed_action,
                            !.confidence = response.confidence]
  /\ UNCHANGED <<pipeline_vars, retry_vars, memory_vars, map_vars, loop_vars>>

NextInteraction == InteractionAgentCall

SpecInteraction == Init /\ [][NextInteraction]_vars

\* a pattern of the four kinds matches the text
PatternMatches(text) ==
  \/ TakeableItem(text) # None
  \/ StateMatch(text, "closed") # None
  \/ StateMatch(text, "locked") # None
  \/ \E k \in 1..Len(InteractiveKeywords) :
       InteractiveKeywords[k] \in SeqToSet(text)

\* C32: whenever a deterministic pattern (takeable item, closed container,
\* locked object, interactive-object keyword) matches the game response, the
\* InteractionAgent makes no LLM analysis call and its confidence lies in the
\* range 80..95.
C32_DeterministicMatchConfidence ==
  a_call.op = "interaction" /\ PatternMatches(a_call.game_response) =>
    /\ ~a_call.analysis
    /\ a_call.confidence \in 80..95

\* ------------------------------------------------------------------------
\* spawn_agents_node's ExplorerAgent and its research_and_propose, in a
\* session opened on a map with exits known from the current location. A
\* game text is its upper-cased text as the sequence of its words.
\* ------------------------------------------------------------------------
ExplorerLocation == "A"

\* the rows of a map in which the directions of known lead on from the
\* location
ExitsKnown(known) ==
  {[from_location |-> ExplorerLocation, direction |-> direction,
    to_location |-> "B", turn_discovered |-> 1] : direction \in known}

\* a session opened on such a map
InitPick ==
  /\ \E known \in SUBSET SeqToSet(CARDINAL_DIRECTIONS) :
       Construct(EmptyTable, {}, ExitsKnown(known), <<>>, {}, 1)
  /\ RetryIdle
  /\ MemoryIdle
  /\ MapIdle
  /\ LoopIdle
  /\ AgentIdle

GameTexts ==
  {<<"A", "PATH", "LEADS", "NORTHEAST">>,
   <<"STAIRS", "LEAD", "UP">>,
   <<"A", "WHITE", "HOUSE">>,
   <<"A", "DOOR", "TO", "THE", "WEST">>,
   <<"A", "ROOM">>}

\* DIRECTION_ALIASES
DirectionAliases(direction) ==
  CASE direction = "NORTH" -> <<"NORTH", "NORTHERN", " N ">>
    [] direction = "SOUTH" -> <<"SOUTH", "SOUTHERN", " S ">>
    [] direction = "EAST" -> <<"EAST", "EASTERN", " E ">>
    [] direction = "WEST" -> <<"WEST", "WESTERN", " W ">>
    [] direction = "NORTHEAST" -> <<"NORTHEAST", "NE">>
    [] direction = "NORTHWEST" -> <<"NORTHWEST", "NW">>
    [] direction = "SOUTHEAST" -> <<"SOUTHEAST", "SE">>
    [] direction = "SOUTHWEST" -> <<"SOUTHWEST", "SW">>
    [] direction = "UP" -> <<"UP", "ABOVE", "UPWARD">>
    [] OTHER -> <<"DOWN", "BELOW", "DOWNWARD">>

\* the aliases that are substrings of a word of the texts
AliasesWithin(word) ==
  CASE word = "NORTHEAST" -> {"NORTHEAST", "NORTH", "EAST"}
    [] word = "UP" -> {"UP"}
    [] word = "HOUSE" -> {"SE"}
    [] word = "WEST" -> {"WEST"}
    [] OTHER -> {}

\* "alias in game_text_upper"
AliasIn(alias, text) ==
  \E i \in 1..Len(text) : alias \in AliasesWithin(text[i])

\* the unexplored directions one of whose aliases is in the text
MentionedIn(text, unexplored) ==
  Filter(unexplored,
         {direction \in SeqToSet(unexplored) :
            \E k \in 1..Len(DirectionAliases(direction)) :
              AliasIn(DirectionAliases(direction)[k], text)})

\* what the proposal chain may answer when it does not fail
ExplorerProposals ==
  {[proposed_action |-> <<"GO", "THERE">>, confidence |-> 100],
   [proposed_action |-> <<"LOOK">>, confidence |-> 10]}

\* spawn_agents_node from known_exits to the ExplorerAgent, and the agent's
\* research_and_propose
ExplorerAgentCall ==
  /\ AgentIdle
  /\ \E current_game_text \in GameTexts :
       LET unexplored_directions ==
             UnexploredDirections(map_transitions, ExplorerLocation)
           mentioned_directions ==
             MentionedIn(current_game_text, unexplored_directions)
           best_direction ==
             PickBestDirection(unexplored_directions, mentioned_directions)
           spawned == [NoAgentCall EXCEPT
                         !.calls = 1,
                         !.game_response = current_game_text,
                         !.unexplored = unexplored_directions,
                         !.mentioned = mentioned_directions]
           researched ==
             [spawned EXCEPT
                !.op = "explorer",
                !.best = best_direction,
                !.outcome = "returned",
                !.confidence =
                  CalculateConfidence(unexplored_directions,
                                      mentioned_directions, best_direction)]
       IN IF unexplored_directions = <<>>
          THEN a_call' = [spawned EXCEPT !.op = "no_explorer"]
          ELSE \E research \in ResearchOutcomes :
               \/ a_call' = [researched EXCEPT
                               !.proposed_action = <<best_direction>>]
               \/ \E proposal \in ExplorerProposals :
                    a_call' = [researched EXCEPT
                                 !.analysis = TRUE,
                                 !.answered = proposal.confidence,
                                 !.proposed_action = proposal.proposed_action]
  /\ UNCHANGED <<pipeline_vars, retry_vars, memory_vars, map_vars, loop_vars>>

NextPick == ExplorerAgentCall

SpecPick == InitPick /\ [][NextPick]_vars

\* the first direction of order that is in the list, None if there is none
FirstOf(order, list) ==
  IF \E k \in 1..Len(order) : order[k] \in SeqToSet(list)
  THEN order[Min({k \in 1..Len(order) : order[k] \in SeqToSet(list)})]
  ELSE None

\* C35: an ExplorerAgent's best_direction is the first mentioned direction
\* if any is mentioned; otherwise the first unexplored one of NORTH, SOUTH,
\* EAST, WEST; otherwise the first unexplored diagonal; otherwise UP or
\* DOWN; and it is a member of unexplored_directions.
C35_BestDirectionPriority ==
  a_call.op = "explorer" =>
    LET cardinal == FirstOf(<<"NORTH", "SOUTH", "EAST", "WEST">>,
                            a_call.unexplored)
        diagonal == FirstOf(<<"NORTHEAST", "NORTHWEST", "SOUTHEAST",
                              "SOUTHWEST">>, a_call.unexplored)
        vertical == FirstOf(<<"UP", "DOWN">>, a_call.unexplored)
    IN /\ a_call.best =
            IF a_call.mentioned # <<>> THEN a_call.mentioned[1]
            ELSE IF cardinal # None THEN cardinal
            ELSE IF diagonal # None THEN diagonal
            ELSE vertical
       /\ a_call.best \in SeqToSet(a_call.unexplored)

\* UP was mentioned and chosen although NORTH was unexplored
C35_Witness ==
  /\ a_call.op = "explorer"
  /\ a_call.mentioned = <<"UP">>
  /\ a_call.best = "UP"
  /\ "NORTH" \in SeqToSet(a_call.unexplored)

\* C36: after research_and_propose an ExplorerAgent's confidence equals
\* min(base + bonus, 95), with base 75/65/55/45 for an unexplored-direction
\* count >= 6 / >= 4 / >= 2 / otherwise and bonus 20 exactly when
\* best_direction is among the mentioned directions, whatever the model
\* returns and also when the research or the proposal call fails.
C36_ConfidenceFormula ==
  a_call.op = "explorer" =>
    LET count == Len(a_call.unexplored)
        base == CASE count >= 6 -> 75
                  [] count \in 4..5 -> 65
                  [] count \in 2..3 -> 55
                  [] OTHER -> 45
        bonus == IF \E k \in 1..Len(a_call.mentioned) :
                      a_call.mentioned[k] = a_call.best
                 THEN 20 ELSE 0
    IN a_call.confidence = Min({base + bonus, 95})

\* the model answered confidence 100 for a mentioned direction out of five
\* unexplored ones, and the agent's confidence is 85
C36_Witness ==
  /\ a_call.op = "explorer"
  /\ a_call.analysis
  /\ a_call.answered = 100
  /\ Len(a_call.unexplored) = 5
  /\ a_call.best \in SeqToSet(a_call.mentioned)
  /\ a_call.confidence = 85

\* ------------------------------------------------------------------------
\* MapperState.update_from_turn, turn after turn on a map that starts
\* empty, with movement commands in the forms _extract_direction accepts.
\* p_call keeps the call: from is previous_location before it, to the
\* current location, text the command.
\* ------------------------------------------------------------------------
MaxTurnRows == 3

TurnLocations == {"A", "B"}

TurnCommands == {"north", "n", "look", "walk west", "move w"}

UpdateFromTurnRecorded ==
  /\ Cardinality(map_transitions) < MaxTurnRows
  /\ \E current_location \in TurnLocations, player_command \in TurnCommands :
       /\ map_transitions' =
            UpdateFromTurn(map_transitions, previous_location,
                           current_location, player_command, 1)
       /\ previous_location' = current_location
       /\ p_call' = [NoMapCall EXCEPT
                       !.op = "update_from_turn",
                       !.from = previous_location,
                       !.to = current_location,
                       !.text = <<player_command>>,
                       !.is_new = map_transitions' # map_transitions]
  /\ UNCHANGED <<pc, turn_number, input_text, zork_response, opens, blocked,
                 turn_counter, turns, summaries, memories, items, agents,
                 threads, started, worker, decision, observer_response,
                 stage_log, failed_at, exhausted, game_sent, sent_at_failure,
                 turn_start, persisted_at_open, game_location, retry_vars,
                 memory_vars, loop_vars, agent_vars>>

NextTurns == UpdateFromTurnRecorded

SpecTurns == Init /\ [][NextTurns]_vars

\* the names under which a transition may carry the direction a command
\* moves in: the full name or its abbreviation; none for a command that
\* is no movement
DirectionNames(command) ==
  CASE command \in {"north", "n"} -> {"NORTH", "N"}
    [] command \in {"walk west", "move w"} -> {"WEST", "W"}
    [] OTHER -> {}

\* C37: for a turn whose command is a movement command in direction d,
\* update_from_turn records (previous_location, d) -> current_location
\* when the location changed and (previous_location, d) -> BLOCKED when it
\* did not; for a non-movement command, or without a previous location,
\* it records nothing; after every call previous_location is the current
\* location. A call for a pair that is stored leaves the stored one.
C37_UpdateFromTurnRecords ==
  p_call.op = "update_from_turn" =>
    LET names == DirectionNames(p_call.text[1])
        destination == IF p_call.from # p_call.to THEN p_call.to
                       ELSE BLOCKED
    IN /\ previous_location = p_call.to
       /\ IF names # {} /\ p_call.from # None
          THEN /\ \E e \in map_transitions :
                    /\ e.from_location = p_call.from
                    /\ e.direction \in names
               /\ p_call.is_new =>
                    \E e \in map_transitions :
                      /\ e.from_location = p_call.from
                      /\ e.direction \in names
                      /\ e.to_location = destination
          ELSE ~p_call.is_new

\* ------------------------------------------------------------------------
\* MapperState.record_movement called with any arguments on a map that
\* starts empty. p_call keeps from, to and the direction argument.
\* ------------------------------------------------------------------------
MaxRecordRows == 3

RecordDestinations == TurnLocations \cup {BLOCKED}

RecordDirections == {"north", "NORTH", "south"}

RecordTurns == {1, 2}

RecordMovementRecorded ==
  /\ Cardinality(map_transitions) < MaxRecordRows
  /\ \E from_location \in TurnLocations, to_location \in RecordDestinations,
        direction \in RecordDirections, turn \in RecordTurns :
       /\ map_transitions' = RecordMovement(map_transitions, from_location,
                                            to_location, direction, turn)
       /\ p_call' = [NoMapCall EXCEPT
                       !.op = "record_movement",
                       !.from = from_location,
                       !.to = to_location,
                       !.text = <<direction>>,
                       !.is_new = map_transitions' # map_transitions]
  /\ UNCHANGED <<pc, turn_number, input_text, zork_response, opens, blocked,
                 turn_counter, turns, summaries, previous_location, memories,
                 items, agents, threads, started, worker, decision,
                 observer_response, stage_log, failed_at, exhausted, game_sent,
                 sent_at_failure, turn_start, persisted_at_open, game_location,
                 retry_vars, memory_vars, loop_vars, agent_vars>>

NextRecord == RecordMovementRecorded

SpecRecord == Init /\ [][NextRecord]_vars

\* the transitions stored for a location and an upper-cased direction
StoredFor(m, from_location, direction) ==
  {e \in m : e.from_location = from_location /\ e.direction = direction}

\* C38: record_movement(from, to, d) returns true exactly when no
\* transition for (from, d) was stored before; when it returns false the
\* stored destination and turn_discovered for (from, d) are unchanged, so
\* a direction first recorded as BLOCKED keeps the BLOCKED destination
\* after a later successful move in that direction.
C38_FirstRecordedWins ==
  [][p_call'.op = "record_movement" =>
       LET before == StoredFor(map_transitions, p_call'.from,
                               Upper(p_call'.text[1]))
           after == StoredFor(map_transitions', p_call'.from,
                              Upper(p_call'.text[1]))
       IN /\ p_call'.is_new <=> before = {}
          /\ ~p_call'.is_new => after = before
          /\ p_call'.is_new =>
               /\ Cardinality(after) = 1
               /\ \A e \in after : e.to_location = p_call'.to]_vars

\* a move north from A to B was recorded after north from A had been
\* recorded as BLOCKED: the call returned false and BLOCKED is kept
C38_Witness ==
  /\ p_call.op = "record_movement"
  /\ ~p_call.is_new
  /\ p_call.from = "A"
  /\ p_call.to = "B"
  /\ p_call.text = <<"north">>
  /\ StoredFor(map_transitions, "A", "NORTH") =
       {[from_location |-> "A", direction |-> "NORTH",
         to_location |-> BLOCKED, turn_discovered |-> 1]}

\* ------------------------------------------------------------------------
\* A session that asks find_path for one pair of locations again and
\* again while record_movement adds transitions. p_call keeps the pair,
\* the latest answer in result, the answer before it in text, and in best
\* whether there was one ("first": no earlier query, "found", "none").
\* ------------------------------------------------------------------------
MaxGrowRows == 3

GrowDestinations == MapLocations \cup {BLOCKED}

GrowDirections == {"north", "in"}

RecordMovementGrow ==
  /\ Cardinality(map_transitions) < MaxGrowRows
  /\ \E from_location \in MapLocations, to_location \in GrowDestinations,
        direction \in GrowDirections :
       /\ map_transitions' = RecordMovement(map_transitions, from_location,
                                            to_location, direction, 1)
       /\ p_call' = [p_call EXCEPT
                       !.op = "record_movement",
                       !.is_new = map_transitions' # map_transitions]
  /\ UNCHANGED <<pc, turn_number, input_text, zork_response, opens, blocked,
                 turn_counter, turns, summaries, previous_location, memories,
                 items, agents, threads, started, worker, decision,
                 observer_response, stage_log, failed_at, exhausted, game_sent,
                 sent_at_failure, turn_start, persisted_at_open, game_location,
                 retry_vars, memory_vars, loop_vars, agent_vars>>

FindPathGrow ==
  /\ p_call.op = "record_movement"
  /\ \E a \in MapLocations, b \in MapLocations,
        rows \in AllTransitionsOrders(map_transitions) :
       /\ p_call.from # None => a = p_call.from /\ b = p_call.to
       /\ p_call' = [p_call EXCEPT
                       !.op = "find_path",
                       !.from = a,
                       !.to = b,
                       !.text = p_call.result.path,
                       !.best = IF p_call.from = None THEN "first"
                                ELSE IF p_call.result.found THEN "found"
                                ELSE "none",
                       !.result = FindPath(rows, a, b)]
  /\ UNCHANGED <<pipeline_vars, retry_vars, memory_vars, loop_vars, agent_vars>>

NextGrow ==
  \/ RecordMovementGrow
  \/ FindPathGrow

SpecGrow == Init /\ [][NextGrow]_vars

\* C39: within a session without reset, reachability only grows and
\* find_path is never stale: if find_path(a, b) returned a path of length
\* n, then after any further record_movement calls find_path(a, b) still
\* returns a path, of length at most n; and a find_path call answers from
\* all the transitions recorded when it is made.
C39_PathsOnlyImprove ==
  p_call.op = "find_path" =>
    /\ p_call.best = "found" =>
         /\ p_call.result.found
         /\ Len(p_call.result.path) <= Len(p_call.text)
    /\ \E rows \in AllTransitionsOrders(map_transitions) :
         p_call.result = FindPath(rows, p_call.from, p_call.to)

\* a path of two steps was answered, a transition recorded, and the next
\* answer for the same pair has one step
C39_Witness ==
  /\ p_call.op = "find_path"
  /\ p_call.best = "found"
  /\ Len(p_call.text) = 2
  /\ p_call.result.found
  /\ Len(p_call.result.path) = 1

\* ------------------------------------------------------------------------
\* IssueClosedAgent.analyze on a session whose Issue Store holds up to
\* MaxIssues open issues, the later ones the more important.
\* ------------------------------------------------------------------------
MaxIssues == 32

\* get_top_memories(limit=30)
TrackedLimit == 30

\* the store after n issues were added, one in each turn
IssueStore(n) ==
  [i \in 1..n |->
     [content |-> <<"issue", ToString(i)>>, importance |-> i,
      turn_number |-> i, location |-> StartLocation, closed |-> FALSE]]

InitCloser ==
  /\ \E n \in 0..MaxIssues :
       Construct(EmptyTable, {}, {}, IssueStore(n), {}, 1)
  /\ RetryIdle
  /\ MemoryIdle
  /\ MapIdle
  /\ LoopIdle
  /\ AgentIdle

\* response.closed_issue_ids: no id, or an id that the structured output
\* may carry
JudgedIds ==
  {{}} \cup {{id} : id \in {1, 2, TrackedLimit, TrackedLimit + 1,
                            MaxIssues + 1}}

\* IssueClosedAgent.analyze: the tracked issues are fetched, the judgment
\* is asked, and remove_memory is called for every id of the answer
IssueClosedAgentCall ==
  /\ LET tracked_issues == GetTopMemories(memories, TrackedLimit) IN
     IF tracked_issues = <<>>
     THEN memories' = memories
     ELSE \E out \in WrappedOutcomes, closed_issue_ids \in JudgedIds :
            memories' = IF out = "ok"
                        THEN CloseMemories(memories, closed_issue_ids)
                        ELSE memories
  /\ UNCHANGED <<pc, turn_number, input_text, zork_response, opens, blocked,
                 turn_counter, turns, summaries, previous_location,
                 map_transitions, items, agents, threads, started, worker,
                 decision, observer_response, stage_log, failed_at, exhausted,
                 game_sent, sent_at_failure, turn_start, persisted_at_open,
                 game_location, retry_vars, memory_vars, map_vars, loop_vars,
                 agent_vars>>

NextCloser == IssueClosedAgentCall

SpecCloser == InitCloser /\ [][NextCloser]_vars

\* C40: the Issue-Closer only closes issues that were in the list of open
\* issues it presented to the judgment step: an id of the answer that is
\* not in that list (non-existent, closed, or outside the fetched top 30)
\* causes no change to the Issue Store.
C40_ClosesOnlyPresented ==
  [][/\ Len(memories') = Len(memories)
     /\ \A i \in 1..Len(memories) :
          memories'[i] # memories[i] =>
            \E k \in 1..Len(GetTopMemories(memories, TrackedLimit)) :
              GetTopMemories(memories, TrackedLimit)[k] = i]_vars

====
